---- MODULE Spec2Model ----
(***************************************************************************)
(* PyAnki (src/PyAnki.py): the SM-2 style scheduler update_card_schedule,  *)
(* the due-set selector get_due_cards and the review session of            *)
(* FlashcardApp (load_selected_decks, display_card, show_answer,           *)
(* rate_card), the card management of the application (adding, editing     *)
(* and deleting cards, save_all_dirty_cards, on_close, also when writing   *)
(* the deck file fails), and calculate_deck_statistics.                    *)
(*                                                                         *)
(* Handlers.  A handler is one action, except where it opens a modal       *)
(* message box between two writes to the state: there it stops, dialog     *)
(* names the box and what is left of the handler, and closing the box is   *)
(* the action that runs the rest.  While a box is open the window takes    *)
(* no other event; the clock and the file system go on.                    *)
(*                                                                         *)
(* Numbers.  The program stores interval_days rounded to 2 decimals and    *)
(* ease_factor rounded to 3 decimals.  The model keeps them as integers:   *)
(* interval_days and days_to_add in hundredths of a day, ease_factor in    *)
(* thousandths.  Dates are day numbers; NoDate is Python's None.           *)
(***************************************************************************)
EXTENDS Integers, Sequences, FiniteSets, TLC

VARIABLES
    today,      \* datetime.date.today(), as a day number
    card,       \* SchedSpec: the card dict handed to update_card_schedule
    before,     \* SchedSpec: that dict as it was before the last call
    quality,    \* SchedSpec: the quality of the last call (meaningful once calls > 0)
    calls,      \* SchedSpec, CollSpec: number of calls of the function under test
    at,         \* SchedSpec, CollSpec: the value of today during the last call
    coll,       \* CollSpec: the collection (list of card dicts) handed to get_due_cards
    selected,   \* CollSpec: the list the last get_due_cards call returned
    forecast_days, \* StatsSpec: the horizon handed to calculate_deck_statistics
    stats,      \* StatsSpec: the dict the last calculate_deck_statistics call returned
    disk,       \* Spec: the rows of the deck file (below its header)
    cards,      \* Spec: the card dicts alive in memory, by id
    deck_data,  \* Spec: FlashcardApp.deck_data, a list of references (ids)
    due_cards,  \* Spec: FlashcardApp.due_cards, a list of references (ids)
    current_card_index,     \* Spec: FlashcardApp.current_card_index
    showing_answer,         \* Spec: FlashcardApp.showing_answer
    _is_review_active,      \* Spec: FlashcardApp._is_review_active
    current_deck_paths,     \* Spec: FlashcardApp.current_deck_paths
    files_needing_full_save, \* Spec: FlashcardApp.files_needing_full_save
    closed,     \* Spec: the main window was closed (on_close ran)
    write_fault, \* FailSpec: the condition of the file system for the next save_deck
    failed_save,
    \* FailSpec: {} or, right after a handler whose save failed, what it was given
    steps,      \* Spec, AppSpec: number of events the behaviour may still take
    last_again, \* Spec: {id} of the card the last event rated Again, else {}
    session_rating, \* Spec: last quality given to each queued card in this session
    owed,       \* Spec: per card rated Again, the cards not shown since
    synced,     \* Spec: per card, its fields as last loaded from or written to the file
    dialog,     \* Spec: the modal message box a handler is waiting in, and what follows it
    available_decks,    \* FolderSpec: FlashcardApp.available_decks, the deck list on screen
    file_exists, \* FolderSpec: the deck file is in the decks folder
    file_header, \* Spec: the column names on the first line of the deck file
    file_specific_fieldnames,
    \* Spec: the header load_deck read the cards of deck_data under
    stats_window \* WindowSpec: FlashcardApp.stats_window is a window (not None)

fnVars == <<card, before, quality, calls, at, coll, selected, forecast_days, stats>>
appVars == <<disk, cards, deck_data, due_cards, current_card_index, showing_answer,
             _is_review_active, current_deck_paths, files_needing_full_save, closed,
             write_fault, failed_save, steps, last_again, session_rating, owed, synced,
             dialog, available_decks, file_exists, file_header, file_specific_fieldnames,
             stats_window>>
uiVars == <<dialog, available_decks, file_exists, file_header, stats_window>>
vars == <<today, fnVars, appVars>>

-----------------------------------------------------------------------------
(* Bounds of the model.                                                    *)

MaxCalls == 2           \* SchedSpec, CollSpec: calls of the function in one behaviour
MaxDays == 1            \* midnights passed in one behaviour
Day0 == 100             \* the day number of the first day
MaxDeck == 3            \* CollSpec: cards in a collection
MaxRows == 3            \* Spec: rows in the deck file at start
MaxSteps == 7           \* Spec: events (load, show, rate, midnight) in one behaviour
MaxEvents == 4          \* AppSpec: events of any kind in one behaviour
MaxFailSteps == 4       \* FailSpec: events in one behaviour
MaxFailRows == 2        \* FailSpec: rows in the deck file at start
MaxStatCards == 2       \* StatsSpec: cards in a collection
MaxForecast == 2        \* StatsSpec: the largest forecast horizon
MaxLapses == 2          \* LiveSpec: a card with this many lapses is not rated Again
MaxLoadSteps == 4       \* LoadSpec: events in one behaviour
MaxFolderSteps == 5     \* FolderSpec: events in one behaviour
MaxFolderRows == 2      \* FolderSpec: rows in the deck file at start
MaxWindowSteps == 5     \* WindowSpec: events in one behaviour
MaxWindowRows == 2      \* WindowSpec: rows in the deck file at start

-----------------------------------------------------------------------------
(* Configuration, src/PyAnki.py lines 56-70, in the model's units.         *)

IntervalScale == 100                \* round(new_interval, 2)
EaseScale == 1000                   \* round(new_ease_factor, 3)

INITIAL_INTERVAL_DAYS == 100        \* 1.0
MINIMUM_INTERVAL_DAYS == 100        \* 1.0
DEFAULT_EASE_FACTOR == 2500         \* 2.5
MINIMUM_EASE_FACTOR == 1300         \* 1.3
EASE_MODIFIER_AGAIN == -200         \* -0.20
EASE_MODIFIER_HARD == -150          \* -0.15
EASE_MODIFIER_EASY == 150           \* +0.15
INTERVAL_MODIFIER_HARD == 1200      \* 1.2
INTERVAL_MODIFIER_EASY_BONUS == 1300 \* 1.3
LAPSE_INTERVAL_FACTOR == 0          \* 0.0
LAPSE_NEW_INTERVAL_DAYS == 100      \* 1.0
LearningHardDays == 1               \* days_to_add = 1, line 346
LearningEasyDays == 4               \* days_to_add = 4, line 351
LapseMinDays == 1                   \* max(1, days_to_add), line 341
GoodEasyMinGrowthDays == 1          \* old_interval + 1, line 364

NoDate == -1                        \* None

-----------------------------------------------------------------------------
(* Arithmetic helpers.                                                     *)

Max(a, b) == IF a >= b THEN a ELSE b

\* math.ceil(n / d) for d > 0
CeilDiv(n, d) == -((-n) \div d)

\* int(x) of a value in hundredths: truncation toward zero, in whole days
IntTrunc(x) == IF x >= 0 THEN x \div IntervalScale ELSE -((-x) \div IntervalScale)

\* The products old_interval * current_ease whose IEEE-754 double result lies
\* just above the exact (integral) product, so that math.ceil returns one day
\* more than the exact ceiling: <<interval in hundredths, ease in thousandths>>.
\* The table is complete for old_interval up to 2000.00 days and current_ease
\* from 1.300 to 5.000; every other product in that range, integral or not,
\* is rounded up by math.ceil to the exact ceiling.
FloatProductAboveInteger ==
    UNION {
        { <<i, 1336>> : i \in {37500, 75000, 150000} },
        { <<i, 1338>> : i \in {150000} },
        { <<i, 1340>> : i \in {75000, 145000, 150000} },
        { <<i, 1342>> : i \in {150000} },
        { <<i, 1344>> : i \in {9375, 18750, 34375, 37500, 68750, 71875, 75000, 137500,
            140625, 143750, 146875, 150000} },
        { <<i, 1346>> : i \in {150000} },
        { <<i, 1348>> : i \in {75000, 150000} },
        { <<i, 1350>> : i \in {18000, 34000, 36000, 66000, 68000, 70000, 72000, 74000,
            130000, 132000, 134000, 136000, 138000, 140000, 142000, 144000, 146000,
            148000, 150000} },
        { <<i, 1352>> : i \in {37500, 75000, 137500, 150000} },
        { <<i, 1354>> : i \in {150000} },
        { <<i, 1356>> : i \in {75000, 125000, 150000} },
        { <<i, 1358>> : i \in {150000} },
        { <<i, 1360>> : i \in {3750, 7500, 8750, 15000, 16250, 17500, 18750, 30000,
            31250, 32500, 33750, 35000, 36250, 37500, 58750, 60000, 61250, 62500, 63750,
            65000, 66250, 67500, 68750, 70000, 71250, 72500, 73750, 75000, 117500,
            118750, 120000, 121250, 122500, 123750, 125000, 126250, 127500, 128750,
            130000, 131250, 132500, 133750, 135000, 136250, 137500, 138750, 140000,
            141250, 142500, 143750, 145000, 146250, 147500, 148750, 150000} },
        { <<i, 1362>> : i \in {150000} },
        { <<i, 1364>> : i \in {75000, 125000, 150000} },
        { <<i, 1368>> : i \in {62500, 112500, 125000, 137500} },
        { <<i, 1370>> : i \in {30000, 60000, 70000, 110000, 120000, 130000, 140000} },
        { <<i, 1372>> : i \in {125000} },
        { <<i, 1475>> : i \in {68000, 132000, 136000} },
        { <<i, 1485>> : i \in {60000, 120000} },
        { <<i, 1495>> : i \in {60000, 120000} },
        { <<i, 1604>> : i \in {125000} },
        { <<i, 1608>> : i \in {62500, 125000} },
        { <<i, 1610>> : i \in {30000, 60000, 120000} },
        { <<i, 1612>> : i \in {125000} },
        { <<i, 1616>> : i \in {31250, 56250, 62500, 112500, 118750, 125000} },
        { <<i, 1620>> : i \in {15000, 30000, 55000, 60000, 110000, 115000, 120000,
            125000} },
        { <<i, 1624>> : i \in {62500, 112500, 125000} },
        { <<i, 1872>> : i \in {106250} },
        { <<i, 1875>> : i \in {13280, 25760, 26560, 51520, 52320, 53120, 53920, 103040,
            103840, 104640, 105440, 106240, 107040, 107840, 108640} },
        { <<i, 2007>> : i \in {100000, 200000} },
        { <<i, 2011>> : i \in {100000, 200000} },
        { <<i, 2015>> : i \in {100000, 200000} },
        { <<i, 2019>> : i \in {100000, 200000} },
        { <<i, 2023>> : i \in {100000, 200000} },
        { <<i, 2027>> : i \in {100000, 200000} },
        { <<i, 2031>> : i \in {100000, 200000} },
        { <<i, 2035>> : i \in {100000, 180000, 200000} },
        { <<i, 2039>> : i \in {100000, 200000} },
        { <<i, 2043>> : i \in {100000, 200000} },
        { <<i, 2047>> : i \in {100000, 200000} },
        { <<i, 2055>> : i \in {20000, 40000, 80000, 160000, 180000} },
        { <<i, 2075>> : i \in {12000, 20000, 24000, 36000, 40000, 44000, 48000, 68000,
            72000, 76000, 80000, 84000, 88000, 92000, 96000, 132000, 136000, 140000,
            144000, 148000, 152000, 156000, 160000, 164000, 168000, 172000, 176000,
            180000, 184000, 188000, 192000, 196000} },
        { <<i, 2095>> : i \in {20000, 40000, 60000, 80000, 120000, 140000, 160000,
            180000} },
        { <<i, 2115>> : i \in {20000, 40000, 60000, 80000, 120000, 140000, 160000,
            180000} },
        { <<i, 2140>> : i \in {95000, 185000, 190000} },
        { <<i, 2144>> : i \in {46875, 90625, 93750, 178125, 181250, 184375, 187500,
            190625} },
        { <<i, 2148>> : i \in {175000} },
        { <<i, 2152>> : i \in {87500, 175000, 187500} },
        { <<i, 2156>> : i \in {175000} },
        { <<i, 2160>> : i \in {11250, 21250, 22500, 41250, 42500, 43750, 45000, 46250,
            81250, 82500, 83750, 85000, 86250, 87500, 88750, 90000, 91250, 92500, 93750,
            161250, 162500, 163750, 165000, 166250, 167500, 168750, 170000, 171250,
            172500, 173750, 175000, 176250, 177500, 178750, 180000, 181250, 182500,
            183750, 185000, 186250, 187500, 188750} },
        { <<i, 2164>> : i \in {175000} },
        { <<i, 2168>> : i \in {87500, 162500, 175000, 187500} },
        { <<i, 2172>> : i \in {75000, 150000, 175000} },
        { <<i, 2176>> : i \in {9375, 18750, 21875, 37500, 40625, 43750, 46875, 75000,
            78125, 81250, 84375, 87500, 90625, 93750, 146875, 150000, 153125, 156250,
            159375, 162500, 165625, 168750, 171875, 175000, 178125, 181250, 184375,
            187500} },
        { <<i, 2180>> : i \in {5000, 10000, 20000, 40000, 45000, 75000, 80000, 85000,
            90000, 145000, 150000, 155000, 160000, 165000, 170000, 175000, 180000,
            185000} },
        { <<i, 2184>> : i \in {37500, 75000, 87500, 150000, 162500, 175000, 187500} },
        { <<i, 2188>> : i \in {75000, 150000, 175000} },
        { <<i, 2192>> : i \in {18750, 37500, 43750, 68750, 75000, 81250, 87500, 137500,
            143750, 150000, 156250, 162500, 168750, 175000, 181250} },
        { <<i, 2196>> : i \in {75000, 150000, 175000} },
        { <<i, 2200>> : i \in {2500, 4500, 5000, 5500, 8500, 9000, 9500, 10000, 10500,
            11000, 11500, 16500, 17000, 17500, 18000, 18500, 19000, 19500, 20000, 20500,
            21000, 21500, 22000, 22500, 23000, 32500, 33000, 33500, 34000, 34500, 35000,
            35500, 36000, 36500, 37000, 37500, 38000, 38500, 39000, 39500, 40000, 40500,
            41000, 41500, 42000, 42500, 43000, 43500, 44000, 44500, 45000, 45500, 46000,
            46500, 64500, 65000, 65500, 66000, 66500, 67000, 67500, 68000, 68500, 69000,
            69500, 70000, 70500, 71000, 71500, 72000, 72500, 73000, 73500, 74000, 74500,
            75000, 75500, 76000, 76500, 77000, 77500, 78000, 78500, 79000, 79500, 80000,
            80500, 81000, 81500, 82000, 82500, 83000, 83500, 84000, 84500, 85000, 85500,
            86000, 86500, 87000, 87500, 88000, 88500, 89000, 89500, 90000, 90500, 91000,
            91500, 92000, 92500, 93000, 128500, 129000, 129500, 130000, 130500, 131000,
            131500, 132000, 132500, 133000, 133500, 134000, 134500, 135000, 135500,
            136000, 136500, 137000, 137500, 138000, 138500, 139000, 139500, 140000,
            140500, 141000, 141500, 142000, 142500, 143000, 143500, 144000, 144500,
            145000, 145500, 146000, 146500, 147000, 147500, 148000, 148500, 149000,
            149500, 150000, 150500, 151000, 151500, 152000, 152500, 153000, 153500,
            154000, 154500, 155000, 155500, 156000, 156500, 157000, 157500, 158000,
            158500, 159000, 159500, 160000, 160500, 161000, 161500, 162000, 162500,
            163000, 163500, 164000, 164500, 165000, 165500, 166000, 166500, 167000,
            167500, 168000, 168500, 169000, 169500, 170000, 170500, 171000, 171500,
            172000, 172500, 173000, 173500, 174000, 174500, 175000, 175500, 176000,
            176500, 177000, 177500, 178000, 178500, 179000, 179500, 180000, 180500,
            181000, 181500, 182000, 182500, 183000, 183500, 184000, 184500, 185000,
            185500, 186000} },
        { <<i, 2204>> : i \in {75000, 150000, 175000} },
        { <<i, 2208>> : i \in {9375, 15625, 18750, 21875, 31250, 34375, 37500, 40625,
            43750, 62500, 65625, 68750, 71875, 75000, 78125, 81250, 84375, 87500, 90625,
            125000, 128125, 131250, 134375, 137500, 140625, 143750, 146875, 150000,
            153125, 156250, 159375, 162500, 165625, 168750, 171875, 175000, 178125,
            181250, 184375} },
        { <<i, 2212>> : i \in {75000, 125000, 150000, 175000} },
        { <<i, 2216>> : i \in {37500, 62500, 75000, 87500, 125000, 137500, 150000,
            162500, 175000} },
        { <<i, 2220>> : i \in {5000, 10000, 15000, 20000, 30000, 35000, 40000, 45000,
            60000, 65000, 70000, 75000, 80000, 85000, 90000, 120000, 125000, 130000,
            135000, 140000, 145000, 150000, 155000, 160000, 165000, 170000, 175000,
            180000} },
        { <<i, 2224>> : i \in {18750, 31250, 37500, 43750, 62500, 68750, 75000, 81250,
            87500, 118750, 125000, 131250, 137500, 143750, 150000, 156250, 162500,
            168750, 175000, 181250} },
        { <<i, 2228>> : i \in {75000, 125000, 150000, 175000} },
        { <<i, 2232>> : i \in {37500, 62500, 75000, 87500, 112500, 125000, 137500,
            150000, 162500, 175000} },
        { <<i, 2236>> : i \in {75000, 125000, 150000, 175000} },
        { <<i, 2240>> : i \in {625, 1250, 1875, 2500, 3750, 4375, 5000, 5625, 6875,
            7500, 8125, 8750, 9375, 10000, 10625, 11250, 13750, 14375, 15000, 15625,
            16250, 16875, 17500, 18125, 18750, 19375, 20000, 20625, 21250, 21875, 22500,
            26875, 27500, 28125, 28750, 29375, 30000, 30625, 31250, 31875, 32500, 33125,
            33750, 34375, 35000, 35625, 36250, 36875, 37500, 38125, 38750, 39375, 40000,
            40625, 41250, 41875, 42500, 43125, 43750, 44375, 45000, 45625, 53750, 54375,
            55000, 55625, 56250, 56875, 57500, 58125, 58750, 59375, 60000, 60625, 61250,
            61875, 62500, 63125, 63750, 64375, 65000, 65625, 66250, 66875, 67500, 68125,
            68750, 69375, 70000, 70625, 71250, 71875, 72500, 73125, 73750, 74375, 75000,
            75625, 76250, 76875, 77500, 78125, 78750, 79375, 80000, 80625, 81250, 81875,
            82500, 83125, 83750, 84375, 85000, 85625, 86250, 86875, 87500, 88125, 88750,
            89375, 90000, 90625, 91250, 106875, 107500, 108125, 108750, 109375, 110000,
            110625, 111250, 111875, 112500, 113125, 113750, 114375, 115000, 115625,
            116250, 116875, 117500, 118125, 118750, 119375, 120000, 120625, 121250,
            121875, 122500, 123125, 123750, 124375, 125000, 125625, 126250, 126875,
            127500, 128125, 128750, 129375, 130000, 130625, 131250, 131875, 132500,
            133125, 133750, 134375, 135000, 135625, 136250, 136875, 137500, 138125,
            138750, 139375, 140000, 140625, 141250, 141875, 142500, 143125, 143750,
            144375, 145000, 145625, 146250, 146875, 147500, 148125, 148750, 149375,
            150000, 150625, 151250, 151875, 152500, 153125, 153750, 154375, 155000,
            155625, 156250, 156875, 157500, 158125, 158750, 159375, 160000, 160625,
            161250, 161875, 162500, 163125, 163750, 164375, 165000, 165625, 166250,
            166875, 167500, 168125, 168750, 169375, 170000, 170625, 171250, 171875,
            172500, 173125, 173750, 174375, 175000, 175625, 176250, 176875, 177500,
            178125, 178750, 179375, 180000, 180625, 181250, 181875, 182500} },
        { <<i, 2244>> : i \in {75000, 125000, 150000, 175000} },
        { <<i, 2248>> : i \in {37500, 62500, 75000, 87500, 112500, 125000, 137500,
            150000, 162500, 175000} },
        { <<i, 2305>> : i \in {20000, 40000, 80000, 160000} },
        { <<i, 2325>> : i \in {20000, 36000, 40000, 44000, 68000, 72000, 76000, 80000,
            84000, 88000, 132000, 136000, 140000, 144000, 148000, 152000, 156000,
            160000, 164000, 168000, 172000, 176000} },
        { <<i, 2345>> : i \in {20000, 40000, 60000, 80000, 120000, 140000, 160000} },
        { <<i, 2365>> : i \in {20000, 40000, 60000, 80000, 120000, 140000, 160000} },
        { <<i, 2422>> : i \in {150000} },
        { <<i, 2426>> : i \in {150000} },
        { <<i, 2430>> : i \in {10000, 20000, 40000, 80000, 150000, 160000} },
        { <<i, 2434>> : i \in {150000} },
        { <<i, 2438>> : i \in {150000} },
        { <<i, 2442>> : i \in {150000} },
        { <<i, 2446>> : i \in {150000} },
        { <<i, 2450>> : i \in {10000, 18000, 20000, 34000, 36000, 38000, 40000, 66000,
            68000, 70000, 72000, 74000, 76000, 78000, 80000, 82000, 130000, 132000,
            134000, 136000, 138000, 140000, 142000, 144000, 146000, 148000, 150000,
            152000, 154000, 156000, 158000, 160000, 162000, 164000, 166000} },
        { <<i, 2454>> : i \in {150000} },
        { <<i, 2458>> : i \in {150000} },
        { <<i, 2462>> : i \in {150000} },
        { <<i, 2466>> : i \in {150000} },
        { <<i, 2470>> : i \in {10000, 20000, 30000, 40000, 60000, 70000, 80000, 120000,
            130000, 140000, 150000, 160000} },
        { <<i, 2474>> : i \in {150000} },
        { <<i, 2478>> : i \in {150000} },
        { <<i, 2482>> : i \in {150000} },
        { <<i, 2486>> : i \in {150000} },
        { <<i, 2490>> : i \in {10000, 20000, 30000, 40000, 60000, 70000, 80000, 110000,
            120000, 130000, 140000, 150000, 160000} },
        { <<i, 2494>> : i \in {150000} },
        { <<i, 2498>> : i \in {150000} },
        { <<i, 2555>> : i \in {20000, 40000, 80000, 160000} },
        { <<i, 2575>> : i \in {36000, 68000, 72000, 76000, 132000, 136000, 140000,
            144000, 148000, 152000, 156000} },
        { <<i, 2595>> : i \in {60000, 120000, 140000} },
        { <<i, 2615>> : i \in {60000, 120000, 140000} },
        { <<i, 2672>> : i \in {18750, 37500, 75000, 150000} },
        { <<i, 2676>> : i \in {75000, 150000} },
        { <<i, 2680>> : i \in {37500, 72500, 75000, 142500, 145000, 147500, 150000,
            152500} },
        { <<i, 2684>> : i \in {75000, 150000} },
        { <<i, 2688>> : i \in {9375, 18750, 34375, 37500, 68750, 71875, 75000, 137500,
            140625, 143750, 146875, 150000} },
        { <<i, 2692>> : i \in {75000, 150000} },
        { <<i, 2696>> : i \in {37500, 75000, 137500, 150000} },
        { <<i, 2700>> : i \in {9000, 17000, 18000, 33000, 34000, 35000, 36000, 37000,
            65000, 66000, 67000, 68000, 69000, 70000, 71000, 72000, 73000, 74000, 75000,
            129000, 130000, 131000, 132000, 133000, 134000, 135000, 136000, 137000,
            138000, 139000, 140000, 141000, 142000, 143000, 144000, 145000, 146000,
            147000, 148000, 149000, 150000, 151000} },
        { <<i, 2704>> : i \in {18750, 37500, 68750, 75000, 131250, 137500, 143750,
            150000} },
        { <<i, 2708>> : i \in {75000, 125000, 150000} },
        { <<i, 2712>> : i \in {37500, 62500, 75000, 125000, 137500, 150000} },
        { <<i, 2716>> : i \in {75000, 125000, 150000} },
        { <<i, 2720>> : i \in {1875, 3750, 4375, 7500, 8125, 8750, 9375, 15000, 15625,
            16250, 16875, 17500, 18125, 18750, 29375, 30000, 30625, 31250, 31875, 32500,
            33125, 33750, 34375, 35000, 35625, 36250, 36875, 37500, 58750, 59375, 60000,
            60625, 61250, 61875, 62500, 63125, 63750, 64375, 65000, 65625, 66250, 66875,
            67500, 68125, 68750, 69375, 70000, 70625, 71250, 71875, 72500, 73125, 73750,
            74375, 75000, 116875, 117500, 118125, 118750, 119375, 120000, 120625,
            121250, 121875, 122500, 123125, 123750, 124375, 125000, 125625, 126250,
            126875, 127500, 128125, 128750, 129375, 130000, 130625, 131250, 131875,
            132500, 133125, 133750, 134375, 135000, 135625, 136250, 136875, 137500,
            138125, 138750, 139375, 140000, 140625, 141250, 141875, 142500, 143125,
            143750, 144375, 145000, 145625, 146250, 146875, 147500, 148125, 148750,
            149375, 150000} },
        { <<i, 2724>> : i \in {75000, 125000, 150000} },
        { <<i, 2728>> : i \in {37500, 62500, 75000, 112500, 125000, 137500, 150000} },
        { <<i, 2732>> : i \in {125000} },
        { <<i, 2736>> : i \in {31250, 56250, 62500, 68750, 112500, 118750, 125000,
            131250, 137500, 143750} },
        { <<i, 2740>> : i \in {15000, 30000, 35000, 55000, 60000, 65000, 70000, 110000,
            115000, 120000, 125000, 130000, 135000, 140000, 145000} },
        { <<i, 2744>> : i \in {62500, 112500, 125000, 137500} },
        { <<i, 2748>> : i \in {125000} },
        { <<i, 2825>> : i \in {36000, 68000, 72000, 132000, 136000, 140000, 144000} },
        { <<i, 2845>> : i \in {60000, 120000, 140000} },
        { <<i, 2865>> : i \in {60000, 120000, 140000} },
        { <<i, 2950>> : i \in {34000, 66000, 68000, 130000, 132000, 134000, 136000,
            138000} },
        { <<i, 2970>> : i \in {30000, 60000, 120000, 130000} },
        { <<i, 2990>> : i \in {30000, 60000, 110000, 120000, 130000} },
        { <<i, 3075>> : i \in {132000} },
        { <<i, 3095>> : i \in {60000, 120000} },
        { <<i, 3115>> : i \in {60000, 120000} },
        { <<i, 3125>> : i \in {224, 448, 896, 1760, 1792, 3488, 3520, 3552, 3584, 6976,
            7040, 7104, 7168, 7776, 7840, 7904, 7968, 13152, 13280, 13408, 13536, 13952,
            14080, 14208, 14336, 14752, 14880, 15008, 15136, 15552, 15680, 15808, 15936,
            16352, 25760, 26016, 26272, 26304, 26560, 26816, 27072, 27104, 27360, 27616,
            27872, 27904, 28160, 28416, 28672, 28704, 28960, 29216, 29472, 29504, 29760,
            30016, 30272, 30304, 30560, 30816, 31072, 31104, 31360, 31616, 31872, 31904,
            32160, 32416, 32672, 32704, 51232, 51520, 51744, 51808, 52032, 52320, 52544,
            52608, 52832, 53120, 53344, 53408, 53632, 53920, 54144, 54208, 54432, 54720,
            54944, 55008, 55232, 55520, 55744, 55808, 56032, 56320, 56544, 56608, 56832,
            57120, 57344, 57408, 57632, 57920, 58144, 58208, 58432, 58720, 58944, 59008,
            59232, 59520, 59744, 59808, 60032, 60320, 60544, 60608, 60832, 61120, 61344,
            61408, 61632, 61920, 62144, 62208, 62432, 62720, 62944, 63008, 63232, 63520,
            63744, 63808, 64032, 64320, 64544, 64608, 64832, 65120, 65344, 65408,
            102464, 102688, 102816, 103040, 103264, 103488, 103616, 103840, 104064,
            104288, 104416, 104640, 104864, 105088, 105216, 105440, 105664, 105888,
            106016, 106240, 106464, 106688, 106816, 107040, 107264, 107488, 107616,
            107840, 108064, 108288, 108416, 108640, 108864, 109088, 109216, 109440,
            109664, 109888, 110016, 110240, 110464, 110688, 110816, 111040, 111264,
            111488, 111616, 111840, 112064, 112288, 112416, 112640, 112864, 113088,
            113216, 113440, 113664, 113888, 114016, 114240, 114464, 114688, 114816,
            115040, 115264, 115488, 115616, 115840, 116064, 116288, 116416, 116640,
            116864, 117088, 117216, 117440, 117664, 117888, 118016, 118240, 118464,
            118688, 118816, 119040, 119264, 119488, 119616, 119840, 120064, 120288,
            120416, 120640, 120864, 121088, 121216, 121440, 121664, 121888, 122016,
            122240, 122464, 122688, 122816, 123040, 123264, 123488, 123616, 123840,
            124064, 124288, 124416, 124640, 124864, 125088, 125216, 125440, 125664,
            125888, 126016, 126240, 126464, 126688, 126816, 127040, 127264, 127488,
            127616, 127840, 128064, 128288, 128416, 128640, 128864, 129088, 129216,
            129440, 129664, 129888, 130016, 130240, 130464, 130688, 130816, 131040} },
        { <<i, 3208>> : i \in {62500, 125000} },
        { <<i, 3212>> : i \in {125000} },
        { <<i, 3216>> : i \in {31250, 62500, 118750, 125000} },
        { <<i, 3220>> : i \in {15000, 30000, 60000, 120000, 125000} },
        { <<i, 3224>> : i \in {62500, 125000} },
        { <<i, 3228>> : i \in {125000} },
        { <<i, 3232>> : i \in {15625, 28125, 31250, 56250, 59375, 62500, 112500, 115625,
            118750, 121875, 125000} },
        { <<i, 3236>> : i \in {125000} },
        { <<i, 3240>> : i \in {7500, 15000, 27500, 30000, 55000, 57500, 60000, 62500,
            107500, 110000, 112500, 115000, 117500, 120000, 122500, 125000} },
        { <<i, 3244>> : i \in {125000} },
        { <<i, 3248>> : i \in {31250, 56250, 62500, 106250, 112500, 118750, 125000} },
        { <<i, 3345>> : i \in {60000, 120000} },
        { <<i, 3365>> : i \in {60000, 120000} },
        { <<i, 3490>> : i \in {110000} },
        { <<i, 3744>> : i \in {53125, 106250, 109375} },
        { <<i, 3750>> : i \in {6640, 12880, 13280, 25760, 26160, 26560, 26960, 51520,
            51920, 52320, 52720, 53120, 53520, 53920, 54320, 102640, 103040, 103440,
            103840, 104240, 104640, 105040, 105440, 105840, 106240, 106640, 107040,
            107440, 107840, 108240, 108640, 109040} },
        { <<i, 4001>> : i \in {100000, 200000} },
        { <<i, 4009>> : i \in {100000, 200000} },
        { <<i, 4014>> : i \in {50000, 100000, 200000} },
        { <<i, 4017>> : i \in {100000, 200000} },
        { <<i, 4022>> : i \in {50000, 100000, 200000} },
        { <<i, 4025>> : i \in {12000, 20000, 24000, 36000, 40000, 44000, 48000, 68000,
            72000, 76000, 80000, 84000, 88000, 92000, 96000, 100000, 132000, 136000,
            140000, 144000, 148000, 152000, 156000, 160000, 164000, 168000, 172000,
            176000, 180000, 184000, 188000, 192000, 196000, 200000} },
        { <<i, 4030>> : i \in {50000, 100000, 190000, 200000} },
        { <<i, 4033>> : i \in {100000, 200000} },
        { <<i, 4038>> : i \in {50000, 100000, 200000} },
        { <<i, 4041>> : i \in {100000, 200000} },
        { <<i, 4046>> : i \in {50000, 100000, 200000} },
        { <<i, 4049>> : i \in {100000, 200000} },
        { <<i, 4054>> : i \in {50000, 100000, 200000} },
        { <<i, 4057>> : i \in {100000, 200000} },
        { <<i, 4062>> : i \in {50000, 100000, 200000} },
        { <<i, 4065>> : i \in {20000, 40000, 60000, 80000, 100000, 120000, 140000,
            160000, 180000, 200000} },
        { <<i, 4070>> : i \in {50000, 90000, 100000, 170000, 180000, 190000, 200000} },
        { <<i, 4073>> : i \in {100000, 200000} },
        { <<i, 4078>> : i \in {50000, 100000, 200000} },
        { <<i, 4081>> : i \in {100000, 200000} },
        { <<i, 4086>> : i \in {50000, 100000, 200000} },
        { <<i, 4089>> : i \in {100000, 200000} },
        { <<i, 4094>> : i \in {50000, 100000, 150000, 200000} },
        { <<i, 4102>> : i \in {150000} },
        { <<i, 4105>> : i \in {20000, 40000, 60000, 80000, 120000, 140000, 160000,
            180000} },
        { <<i, 4110>> : i \in {10000, 20000, 40000, 80000, 90000, 150000, 160000,
            170000, 180000, 190000} },
        { <<i, 4118>> : i \in {150000} },
        { <<i, 4126>> : i \in {150000} },
        { <<i, 4134>> : i \in {150000} },
        { <<i, 4142>> : i \in {150000} },
        { <<i, 4150>> : i \in {6000, 10000, 12000, 18000, 20000, 22000, 24000, 34000,
            36000, 38000, 40000, 42000, 44000, 46000, 48000, 66000, 68000, 70000, 72000,
            74000, 76000, 78000, 80000, 82000, 84000, 86000, 88000, 90000, 92000, 94000,
            96000, 98000, 130000, 132000, 134000, 136000, 138000, 140000, 142000,
            144000, 146000, 148000, 150000, 152000, 154000, 156000, 158000, 160000,
            162000, 164000, 166000, 168000, 170000, 172000, 174000, 176000, 178000,
            180000, 182000, 184000, 186000, 188000, 190000, 192000, 194000, 196000} },
        { <<i, 4158>> : i \in {150000} },
        { <<i, 4166>> : i \in {150000} },
        { <<i, 4174>> : i \in {150000} },
        { <<i, 4182>> : i \in {150000} },
        { <<i, 4190>> : i \in {10000, 20000, 30000, 40000, 60000, 70000, 80000, 90000,
            120000, 130000, 140000, 150000, 160000, 170000, 180000, 190000} },
        { <<i, 4195>> : i \in {180000} },
        { <<i, 4198>> : i \in {150000} },
        { <<i, 4206>> : i \in {150000} },
        { <<i, 4214>> : i \in {150000} },
        { <<i, 4222>> : i \in {150000} },
        { <<i, 4230>> : i \in {10000, 20000, 30000, 40000, 60000, 70000, 80000, 90000,
            110000, 120000, 130000, 140000, 150000, 160000, 170000, 180000, 190000} },
        { <<i, 4235>> : i \in {20000, 40000, 80000, 160000, 180000} },
        { <<i, 4238>> : i \in {150000} },
        { <<i, 4246>> : i \in {150000} },
        { <<i, 4275>> : i \in {20000, 36000, 40000, 44000, 68000, 72000, 76000, 80000,
            84000, 88000, 92000, 132000, 136000, 140000, 144000, 148000, 152000, 156000,
            160000, 164000, 168000, 172000, 176000, 180000, 184000, 188000} },
        { <<i, 4280>> : i \in {47500, 92500, 95000, 185000, 187500, 190000} },
        { <<i, 4288>> : i \in {46875, 90625, 93750, 178125, 181250, 184375, 187500,
            190625} },
        { <<i, 4296>> : i \in {87500, 175000, 187500} },
        { <<i, 4304>> : i \in {43750, 87500, 93750, 168750, 175000, 181250, 187500} },
        { <<i, 4312>> : i \in {87500, 175000, 187500} },
        { <<i, 4315>> : i \in {20000, 40000, 60000, 80000, 120000, 140000, 160000,
            180000} },
        { <<i, 4320>> : i \in {5625, 10625, 11250, 20625, 21250, 21875, 22500, 23125,
            40625, 41250, 41875, 42500, 43125, 43750, 44375, 45000, 45625, 46250, 46875,
            80625, 81250, 81875, 82500, 83125, 83750, 84375, 85000, 85625, 86250, 86875,
            87500, 88125, 88750, 89375, 90000, 90625, 91250, 91875, 92500, 93125, 93750,
            94375, 160625, 161250, 161875, 162500, 163125, 163750, 164375, 165000,
            165625, 166250, 166875, 167500, 168125, 168750, 169375, 170000, 170625,
            171250, 171875, 172500, 173125, 173750, 174375, 175000, 175625, 176250,
            176875, 177500, 178125, 178750, 179375, 180000, 180625, 181250, 181875,
            182500, 183125, 183750, 184375, 185000, 185625, 186250, 186875, 187500,
            188125, 188750, 189375} },
        { <<i, 4328>> : i \in {87500, 162500, 175000, 187500} },
        { <<i, 4336>> : i \in {43750, 81250, 87500, 93750, 156250, 162500, 168750,
            175000, 181250, 187500} },
        { <<i, 4344>> : i \in {37500, 75000, 87500, 150000, 162500, 175000, 187500} },
        { <<i, 4352>> : i \in {9375, 18750, 21875, 37500, 40625, 43750, 46875, 75000,
            78125, 81250, 84375, 87500, 90625, 93750, 146875, 150000, 153125, 156250,
            159375, 162500, 165625, 168750, 171875, 175000, 178125, 181250, 184375,
            187500} },
        { <<i, 4355>> : i \in {20000, 40000, 60000, 80000, 120000, 140000, 160000,
            180000} },
        { <<i, 4360>> : i \in {2500, 5000, 10000, 20000, 22500, 37500, 40000, 42500,
            45000, 72500, 75000, 77500, 80000, 82500, 85000, 87500, 90000, 92500,
            142500, 145000, 147500, 150000, 152500, 155000, 157500, 160000, 162500,
            165000, 167500, 170000, 172500, 175000, 177500, 180000, 182500, 185000,
            187500} },
        { <<i, 4368>> : i \in {18750, 37500, 43750, 75000, 81250, 87500, 93750, 143750,
            150000, 156250, 162500, 168750, 175000, 181250, 187500} },
        { <<i, 4376>> : i \in {37500, 75000, 87500, 137500, 150000, 162500, 175000} },
        { <<i, 4384>> : i \in {9375, 18750, 21875, 34375, 37500, 40625, 43750, 68750,
            71875, 75000, 78125, 81250, 84375, 87500, 90625, 134375, 137500, 140625,
            143750, 146875, 150000, 153125, 156250, 159375, 162500, 165625, 168750,
            171875, 175000, 178125, 181250, 184375} },
        { <<i, 4392>> : i \in {37500, 75000, 87500, 137500, 150000, 162500, 175000} },
        { <<i, 4400>> : i \in {1250, 2250, 2500, 2750, 4250, 4500, 4750, 5000, 5250,
            5500, 5750, 8250, 8500, 8750, 9000, 9250, 9500, 9750, 10000, 10250, 10500,
            10750, 11000, 11250, 11500, 16250, 16500, 16750, 17000, 17250, 17500, 17750,
            18000, 18250, 18500, 18750, 19000, 19250, 19500, 19750, 20000, 20250, 20500,
            20750, 21000, 21250, 21500, 21750, 22000, 22250, 22500, 22750, 23000, 23250,
            32250, 32500, 32750, 33000, 33250, 33500, 33750, 34000, 34250, 34500, 34750,
            35000, 35250, 35500, 35750, 36000, 36250, 36500, 36750, 37000, 37250, 37500,
            37750, 38000, 38250, 38500, 38750, 39000, 39250, 39500, 39750, 40000, 40250,
            40500, 40750, 41000, 41250, 41500, 41750, 42000, 42250, 42500, 42750, 43000,
            43250, 43500, 43750, 44000, 44250, 44500, 44750, 45000, 45250, 45500, 45750,
            46000, 46250, 46500, 64250, 64500, 64750, 65000, 65250, 65500, 65750, 66000,
            66250, 66500, 66750, 67000, 67250, 67500, 67750, 68000, 68250, 68500, 68750,
            69000, 69250, 69500, 69750, 70000, 70250, 70500, 70750, 71000, 71250, 71500,
            71750, 72000, 72250, 72500, 72750, 73000, 73250, 73500, 73750, 74000, 74250,
            74500, 74750, 75000, 75250, 75500, 75750, 76000, 76250, 76500, 76750, 77000,
            77250, 77500, 77750, 78000, 78250, 78500, 78750, 79000, 79250, 79500, 79750,
            80000, 80250, 80500, 80750, 81000, 81250, 81500, 81750, 82000, 82250, 82500,
            82750, 83000, 83250, 83500, 83750, 84000, 84250, 84500, 84750, 85000, 85250,
            85500, 85750, 86000, 86250, 86500, 86750, 87000, 87250, 87500, 87750, 88000,
            88250, 88500, 88750, 89000, 89250, 89500, 89750, 90000, 90250, 90500, 90750,
            91000, 91250, 91500, 91750, 92000, 92250, 92500, 92750, 93000, 128250,
            128500, 128750, 129000, 129250, 129500, 129750, 130000, 130250, 130500,
            130750, 131000, 131250, 131500, 131750, 132000, 132250, 132500, 132750,
            133000, 133250, 133500, 133750, 134000, 134250, 134500, 134750, 135000,
            135250, 135500, 135750, 136000, 136250, 136500, 136750, 137000, 137250,
            137500, 137750, 138000, 138250, 138500, 138750, 139000, 139250, 139500,
            139750, 140000, 140250, 140500, 140750, 141000, 141250, 141500, 141750,
            142000, 142250, 142500, 142750, 143000, 143250, 143500, 143750, 144000,
            144250, 144500, 144750, 145000, 145250, 145500, 145750, 146000, 146250,
            146500, 146750, 147000, 147250, 147500, 147750, 148000, 148250, 148500,
            148750, 149000, 149250, 149500, 149750, 150000, 150250, 150500, 150750,
            151000, 151250, 151500, 151750, 152000, 152250, 152500, 152750, 153000,
            153250, 153500, 153750, 154000, 154250, 154500, 154750, 155000, 155250,
            155500, 155750, 156000, 156250, 156500, 156750, 157000, 157250, 157500,
            157750, 158000, 158250, 158500, 158750, 159000, 159250, 159500, 159750,
            160000, 160250, 160500, 160750, 161000, 161250, 161500, 161750, 162000,
            162250, 162500, 162750, 163000, 163250, 163500, 163750, 164000, 164250,
            164500, 164750, 165000, 165250, 165500, 165750, 166000, 166250, 166500,
            166750, 167000, 167250, 167500, 167750, 168000, 168250, 168500, 168750,
            169000, 169250, 169500, 169750, 170000, 170250, 170500, 170750, 171000,
            171250, 171500, 171750, 172000, 172250, 172500, 172750, 173000, 173250,
            173500, 173750, 174000, 174250, 174500, 174750, 175000, 175250, 175500,
            175750, 176000, 176250, 176500, 176750, 177000, 177250, 177500, 177750,
            178000, 178250, 178500, 178750, 179000, 179250, 179500, 179750, 180000,
            180250, 180500, 180750, 181000, 181250, 181500, 181750, 182000, 182250,
            182500, 182750, 183000, 183250, 183500, 183750, 184000, 184250, 184500,
            184750, 185000, 185250, 185500, 185750, 186000} },
        { <<i, 4408>> : i \in {37500, 75000, 87500, 137500, 150000, 162500, 175000} },
        { <<i, 4416>> : i \in {9375, 15625, 18750, 21875, 31250, 34375, 37500, 40625,
            43750, 62500, 65625, 68750, 71875, 75000, 78125, 81250, 84375, 87500, 90625,
            125000, 128125, 131250, 134375, 137500, 140625, 143750, 146875, 150000,
            153125, 156250, 159375, 162500, 165625, 168750, 171875, 175000, 178125,
            181250, 184375} },
        { <<i, 4424>> : i \in {37500, 62500, 75000, 87500, 125000, 137500, 150000,
            162500, 175000} },
        { <<i, 4432>> : i \in {18750, 31250, 37500, 43750, 62500, 68750, 75000, 81250,
            87500, 118750, 125000, 131250, 137500, 143750, 150000, 156250, 162500,
            168750, 175000, 181250} },
        { <<i, 4440>> : i \in {2500, 5000, 7500, 10000, 15000, 17500, 20000, 22500,
            30000, 32500, 35000, 37500, 40000, 42500, 45000, 60000, 62500, 65000, 67500,
            70000, 72500, 75000, 77500, 80000, 82500, 85000, 87500, 90000, 117500,
            120000, 122500, 125000, 127500, 130000, 132500, 135000, 137500, 140000,
            142500, 145000, 147500, 150000, 152500, 155000, 157500, 160000, 162500,
            165000, 167500, 170000, 172500, 175000, 177500, 180000, 182500} },
        { <<i, 4445>> : i \in {180000} },
        { <<i, 4448>> : i \in {9375, 15625, 18750, 21875, 31250, 34375, 37500, 40625,
            43750, 59375, 62500, 65625, 68750, 71875, 75000, 78125, 81250, 84375, 87500,
            90625, 115625, 118750, 121875, 125000, 128125, 131250, 134375, 137500,
            140625, 143750, 146875, 150000, 153125, 156250, 159375, 162500, 165625,
            168750, 171875, 175000, 178125, 181250} },
        { <<i, 4456>> : i \in {37500, 62500, 75000, 87500, 112500, 125000, 137500,
            150000, 162500, 175000} },
        { <<i, 4464>> : i \in {18750, 31250, 37500, 43750, 56250, 62500, 68750, 75000,
            81250, 87500, 112500, 118750, 125000, 131250, 137500, 143750, 150000,
            156250, 162500, 168750, 175000, 181250} },
        { <<i, 4472>> : i \in {37500, 62500, 75000, 87500, 112500, 125000, 137500,
            150000, 162500, 175000} },
        { <<i, 4480>> : i \in {625, 1250, 1875, 2500, 3750, 4375, 5000, 5625, 6875,
            7500, 8125, 8750, 9375, 10000, 10625, 11250, 13750, 14375, 15000, 15625,
            16250, 16875, 17500, 18125, 18750, 19375, 20000, 20625, 21250, 21875, 22500,
            26875, 27500, 28125, 28750, 29375, 30000, 30625, 31250, 31875, 32500, 33125,
            33750, 34375, 35000, 35625, 36250, 36875, 37500, 38125, 38750, 39375, 40000,
            40625, 41250, 41875, 42500, 43125, 43750, 44375, 45000, 45625, 53750, 54375,
            55000, 55625, 56250, 56875, 57500, 58125, 58750, 59375, 60000, 60625, 61250,
            61875, 62500, 63125, 63750, 64375, 65000, 65625, 66250, 66875, 67500, 68125,
            68750, 69375, 70000, 70625, 71250, 71875, 72500, 73125, 73750, 74375, 75000,
            75625, 76250, 76875, 77500, 78125, 78750, 79375, 80000, 80625, 81250, 81875,
            82500, 83125, 83750, 84375, 85000, 85625, 86250, 86875, 87500, 88125, 88750,
            89375, 90000, 90625, 91250, 106875, 107500, 108125, 108750, 109375, 110000,
            110625, 111250, 111875, 112500, 113125, 113750, 114375, 115000, 115625,
            116250, 116875, 117500, 118125, 118750, 119375, 120000, 120625, 121250,
            121875, 122500, 123125, 123750, 124375, 125000, 125625, 126250, 126875,
            127500, 128125, 128750, 129375, 130000, 130625, 131250, 131875, 132500,
            133125, 133750, 134375, 135000, 135625, 136250, 136875, 137500, 138125,
            138750, 139375, 140000, 140625, 141250, 141875, 142500, 143125, 143750,
            144375, 145000, 145625, 146250, 146875, 147500, 148125, 148750, 149375,
            150000, 150625, 151250, 151875, 152500, 153125, 153750, 154375, 155000,
            155625, 156250, 156875, 157500, 158125, 158750, 159375, 160000, 160625,
            161250, 161875, 162500, 163125, 163750, 164375, 165000, 165625, 166250,
            166875, 167500, 168125, 168750, 169375, 170000, 170625, 171250, 171875,
            172500, 173125, 173750, 174375, 175000, 175625, 176250, 176875, 177500,
            178125, 178750, 179375, 180000, 180625, 181250, 181875, 182500} },
        { <<i, 4485>> : i \in {20000, 40000, 80000, 160000, 180000} },
        { <<i, 4488>> : i \in {37500, 62500, 75000, 87500, 112500, 125000, 137500,
            150000, 162500, 175000} },
        { <<i, 4496>> : i \in {18750, 31250, 37500, 43750, 56250, 62500, 68750, 75000,
            81250, 87500, 106250, 112500, 118750, 125000, 131250, 137500, 143750,
            150000, 156250, 162500, 168750, 175000, 181250} },
        { <<i, 4525>> : i \in {20000, 36000, 40000, 44000, 68000, 72000, 76000, 80000,
            84000, 88000, 132000, 136000, 140000, 144000, 148000, 152000, 156000,
            160000, 164000, 168000, 172000, 176000, 180000} },
        { <<i, 4565>> : i \in {20000, 40000, 60000, 80000, 120000, 140000, 160000} },
        { <<i, 4570>> : i \in {170000} },
        { <<i, 4594>> : i \in {150000} },
        { <<i, 4602>> : i \in {150000} },
        { <<i, 4605>> : i \in {20000, 40000, 60000, 80000, 120000, 140000, 160000} },
        { <<i, 4610>> : i \in {10000, 20000, 40000, 80000, 150000, 160000, 170000} },
        { <<i, 4618>> : i \in {150000} },
        { <<i, 4626>> : i \in {150000} },
        { <<i, 4634>> : i \in {150000} },
        { <<i, 4642>> : i \in {150000} },
        { <<i, 4650>> : i \in {10000, 18000, 20000, 22000, 34000, 36000, 38000, 40000,
            42000, 44000, 66000, 68000, 70000, 72000, 74000, 76000, 78000, 80000, 82000,
            84000, 86000, 88000, 130000, 132000, 134000, 136000, 138000, 140000, 142000,
            144000, 146000, 148000, 150000, 152000, 154000, 156000, 158000, 160000,
            162000, 164000, 166000, 168000, 170000, 172000, 174000, 176000} },
        { <<i, 4658>> : i \in {150000} },
        { <<i, 4666>> : i \in {150000} },
        { <<i, 4674>> : i \in {150000} },
        { <<i, 4682>> : i \in {150000} },
        { <<i, 4690>> : i \in {10000, 20000, 30000, 40000, 60000, 70000, 80000, 120000,
            130000, 140000, 150000, 160000, 170000} },
        { <<i, 4698>> : i \in {150000} },
        { <<i, 4706>> : i \in {150000} },
        { <<i, 4714>> : i \in {150000} },
        { <<i, 4722>> : i \in {150000} },
        { <<i, 4730>> : i \in {10000, 20000, 30000, 40000, 60000, 70000, 80000, 110000,
            120000, 130000, 140000, 150000, 160000, 170000} },
        { <<i, 4735>> : i \in {20000, 40000, 80000, 160000} },
        { <<i, 4738>> : i \in {150000} },
        { <<i, 4746>> : i \in {150000} },
        { <<i, 4775>> : i \in {20000, 36000, 40000, 68000, 72000, 76000, 80000, 84000,
            132000, 136000, 140000, 144000, 148000, 152000, 156000, 160000, 164000,
            168000} },
        { <<i, 4815>> : i \in {20000, 40000, 60000, 80000, 120000, 140000, 160000} },
        { <<i, 4820>> : i \in {165000} },
        { <<i, 4844>> : i \in {75000, 150000} },
        { <<i, 4852>> : i \in {75000, 150000} },
        { <<i, 4855>> : i \in {20000, 40000, 60000, 80000, 120000, 140000, 160000} },
        { <<i, 4860>> : i \in {5000, 10000, 20000, 40000, 75000, 80000, 145000, 150000,
            155000, 160000, 165000} },
        { <<i, 4868>> : i \in {75000, 150000} },
        { <<i, 4876>> : i \in {75000, 150000} },
        { <<i, 4884>> : i \in {75000, 150000} },
        { <<i, 4892>> : i \in {75000, 150000} },
        { <<i, 4900>> : i \in {5000, 9000, 10000, 17000, 18000, 19000, 20000, 33000,
            34000, 35000, 36000, 37000, 38000, 39000, 40000, 41000, 65000, 66000, 67000,
            68000, 69000, 70000, 71000, 72000, 73000, 74000, 75000, 76000, 77000, 78000,
            79000, 80000, 81000, 82000, 83000, 129000, 130000, 131000, 132000, 133000,
            134000, 135000, 136000, 137000, 138000, 139000, 140000, 141000, 142000,
            143000, 144000, 145000, 146000, 147000, 148000, 149000, 150000, 151000,
            152000, 153000, 154000, 155000, 156000, 157000, 158000, 159000, 160000,
            161000, 162000, 163000, 164000, 165000, 166000, 167000} },
        { <<i, 4908>> : i \in {75000, 150000} },
        { <<i, 4916>> : i \in {75000, 125000, 150000} },
        { <<i, 4924>> : i \in {75000, 125000, 150000} },
        { <<i, 4932>> : i \in {75000, 125000, 150000} },
        { <<i, 4940>> : i \in {5000, 10000, 15000, 20000, 30000, 35000, 40000, 60000,
            65000, 70000, 75000, 80000, 120000, 125000, 130000, 135000, 140000, 145000,
            150000, 155000, 160000, 165000} },
        { <<i, 4948>> : i \in {75000, 125000, 150000} },
        { <<i, 4956>> : i \in {75000, 125000, 150000} },
        { <<i, 4964>> : i \in {75000, 125000, 150000} },
        { <<i, 4972>> : i \in {75000, 125000, 150000} },
        { <<i, 4980>> : i \in {5000, 10000, 15000, 20000, 30000, 35000, 40000, 55000,
            60000, 65000, 70000, 75000, 80000, 110000, 115000, 120000, 125000, 130000,
            135000, 140000, 145000, 150000, 155000, 160000} },
        { <<i, 4985>> : i \in {20000, 40000, 80000, 160000} },
        { <<i, 4988>> : i \in {75000, 125000, 150000} },
        { <<i, 4996>> : i \in {75000, 125000, 150000} }
    }

\* float('inf'), lines 436 and 438, and what float() reads from the text
\* "inf" of a deck file (lines 135, 213): above every number of the model
Infinity == 1000000000

\* x + d of two floats: an infinite float stays infinite
FloatPlus(x, d) == IF x = Infinity THEN Infinity ELSE x + d

\* math.ceil(old_interval * current_ease), in whole days
CeilIntervalTimesEase(old_interval, current_ease) ==
    CeilDiv(old_interval * current_ease, IntervalScale * EaseScale)
        + (IF <<old_interval, current_ease>> \in FloatProductAboveInteger THEN 1 ELSE 0)

\* math.ceil(old_interval * INTERVAL_MODIFIER_HARD), in whole days
CeilIntervalTimesHard(old_interval) ==
    CeilDiv(old_interval * INTERVAL_MODIFIER_HARD, IntervalScale * EaseScale)

\* Variant: the Easy bonus truncated (int) instead of rounded up (math.ceil).
CeilDaysTimesEasyBonus_Truncated(days) ==
    (days * INTERVAL_MODIFIER_EASY_BONUS) \div EaseScale

\* math.ceil(days_to_add * INTERVAL_MODIFIER_EASY_BONUS), days_to_add in whole days
CeilDaysTimesEasyBonus(days) ==
    CeilDiv(days * INTERVAL_MODIFIER_EASY_BONUS, EaseScale)

-----------------------------------------------------------------------------
(* update_card_schedule, lines 319-389.  days_to_add is kept in hundredths *)
(* of a day, because old_interval + 1 (line 364) can be fractional.        *)

\* Variant: the fractional-lapse mode with factor 0.5 instead of the fixed interval.
LapseDays_Fractional(old_interval) ==
    Max(LapseMinDays * IntervalScale,
        CeilDiv(old_interval * 500, IntervalScale * EaseScale) * IntervalScale)

\* Variant: the lapse interval is ceil(old_interval * LAPSE_INTERVAL_FACTOR),
\* without the fixed interval of line 340 and the minimum of line 341.
LapseDays_FactorOnly(old_interval) ==
    CeilDiv(old_interval * LAPSE_INTERVAL_FACTOR, IntervalScale * EaseScale) * IntervalScale

\* lines 336-342: quality == 1
LapseDays(old_interval) ==
    LET d == IF LAPSE_INTERVAL_FACTOR > 0
             THEN CeilDiv(old_interval * LAPSE_INTERVAL_FACTOR, IntervalScale * EaseScale)
                      * IntervalScale
             ELSE LAPSE_NEW_INTERVAL_DAYS
    IN  Max(LapseMinDays * IntervalScale, d)

\* line 334 and the test of line 344
IsLearning(old_interval, old_reviews) ==
    (old_interval < MINIMUM_INTERVAL_DAYS) \/ (old_reviews <= 0)

\* lines 345-353: days_to_add of the learning branch (0 when no case matches)
LearningDays(q) ==
    CASE q = 2 -> LearningHardDays * IntervalScale
      [] q = 3 -> INITIAL_INTERVAL_DAYS
      [] q = 4 -> LearningEasyDays * IntervalScale
      [] OTHER -> 0

\* Variant: line 364 (the floor old_interval + 1) left out.
GraduatedDays_NoFloor(old_interval, current_ease, q) ==
    LET base == CeilIntervalTimesEase(old_interval, current_ease)
    IN  IntervalScale * (CASE q = 2 -> CeilIntervalTimesHard(old_interval)
                           [] q = 4 -> CeilDaysTimesEasyBonus(base)
                           [] OTHER -> base)

\* Variant: the floor old_interval + 1 of line 364 applied to Hard as well.
GraduatedDays_FloorOnHard(old_interval, current_ease, q) ==
    LET base == CeilIntervalTimesEase(old_interval, current_ease)
        d    == CASE q = 2 -> CeilIntervalTimesHard(old_interval)
                  [] q = 4 -> CeilDaysTimesEasyBonus(base)
                  [] OTHER -> base
    IN  Max(d * IntervalScale, old_interval + GoodEasyMinGrowthDays * IntervalScale)

\* Variant: the Easy bonus is applied to the old interval instead of to the
\* days computed from the ease.
GraduatedDays_EasyFromOldInterval(old_interval, current_ease, q) ==
    LET base == CeilIntervalTimesEase(old_interval, current_ease)
        d    == CASE q = 2 -> CeilIntervalTimesHard(old_interval)
                  [] q = 4 -> CeilDiv(old_interval * INTERVAL_MODIFIER_EASY_BONUS,
                                      IntervalScale * EaseScale)
                  [] OTHER -> base
    IN  IF q # 2
        THEN Max(d * IntervalScale, old_interval + GoodEasyMinGrowthDays * IntervalScale)
        ELSE d * IntervalScale

\* lines 355-364: days_to_add of the graduated branch
GraduatedDays(old_interval, current_ease, q) ==
    LET base == CeilIntervalTimesEase(old_interval, current_ease)
        d    == CASE q = 2 -> CeilIntervalTimesHard(old_interval)
                  [] q = 4 -> CeilDaysTimesEasyBonus(base)
                  [] OTHER -> base
    IN  IF q # 2
        THEN Max(d * IntervalScale, old_interval + GoodEasyMinGrowthDays * IntervalScale)
        ELSE d * IntervalScale

\* Variant: the max(MINIMUM_EASE_FACTOR, ...) of lines 338, 347, 358 left out.
NewEase_NoFloor(current_ease, q) ==
    CASE q = 1 -> FloatPlus(current_ease, EASE_MODIFIER_AGAIN)
      [] q = 2 -> FloatPlus(current_ease, EASE_MODIFIER_HARD)
      [] q = 4 -> FloatPlus(current_ease, EASE_MODIFIER_EASY)
      [] OTHER -> current_ease

\* Variant: Again lowers the ease by the Hard modifier.
NewEase_AgainLikeHard(current_ease, q) ==
    CASE q \in {1, 2} -> Max(MINIMUM_EASE_FACTOR, FloatPlus(current_ease, EASE_MODIFIER_HARD))
      [] q = 4 -> FloatPlus(current_ease, EASE_MODIFIER_EASY)
      [] OTHER -> current_ease

\* lines 338, 347, 352, 358, 363: new_ease_factor
NewEase(current_ease, q) ==
    CASE q = 1 -> Max(MINIMUM_EASE_FACTOR, FloatPlus(current_ease, EASE_MODIFIER_AGAIN))
      [] q = 2 -> Max(MINIMUM_EASE_FACTOR, FloatPlus(current_ease, EASE_MODIFIER_HARD))
      [] q = 4 -> FloatPlus(current_ease, EASE_MODIFIER_EASY)
      [] OTHER -> current_ease

\* Variant: Hard counted as a lapse too.
NewLapses_AlsoOnHard(old_lapses, q) ==
    IF q <= 2 THEN old_lapses + 1 ELSE old_lapses

\* lines 330, 337: new_lapses
NewLapses(old_lapses, q) ==
    IF q = 1 THEN old_lapses + 1 ELSE old_lapses

\* Variant: the stored ease is used as it is.
CurrentEase_Unclamped(old_ease_factor) == old_ease_factor

\* line 328: current_ease
CurrentEase(old_ease_factor) == Max(MINIMUM_EASE_FACTOR, old_ease_factor)

\* lines 322-373: the values one call computes from the card, the quality and
\* today's date
ComputeSchedule(c, q, day) ==
    LET old_interval == c.interval_days
        old_ease_factor == c.ease_factor
        old_lapses == c.lapses
        old_reviews == c.reviews
        current_ease == CurrentEase(old_ease_factor)
        new_reviews == old_reviews + 1
        new_lapses == NewLapses(old_lapses, q)
        new_ease_factor == NewEase(current_ease, q)
        computed == IF q = 1 THEN LapseDays(old_interval)
                    ELSE IF IsLearning(old_interval, old_reviews)
                         THEN LearningDays(q)
                         ELSE GraduatedDays(old_interval, current_ease, q)
        \* lines 367-369: both days_to_add and new_interval are clamped
        days_to_add == IF q > 1 THEN Max(MINIMUM_INTERVAL_DAYS, computed) ELSE computed
        new_interval == days_to_add
    IN  [ interval_days |-> new_interval,
          ease_factor |-> new_ease_factor,
          lapses |-> new_lapses,
          reviews |-> new_reviews,
          next_review_date |-> day + IntTrunc(days_to_add) ]

\* Variant: line 387 left out, the flag is not raised when the fields are written.
WriteBack_DirtyLeftOut(c, n) ==
    [c EXCEPT !.interval_days = n.interval_days,
              !.ease_factor = n.ease_factor,
              !.lapses = n.lapses,
              !.reviews = n.reviews,
              !.next_review_date = n.next_review_date]

\* lines 375-389: the change detection and the write to the card dict
WriteBack(c, n) ==
    LET changed == \/ c.interval_days # n.interval_days
                   \/ c.ease_factor # n.ease_factor
                   \/ c.lapses # n.lapses
                   \/ c.reviews # n.reviews
                   \/ c.next_review_date # n.next_review_date
    IN  IF changed
        THEN [c EXCEPT !.interval_days = n.interval_days,
                       !.ease_factor = n.ease_factor,
                       !.lapses = n.lapses,
                       !.reviews = n.reviews,
                       !.next_review_date = n.next_review_date,
                       !._dirty = TRUE]
        ELSE c

\* lines 339 and 356: math.ceil of an infinite product raises OverflowError.
\* The graduated branch multiplies the interval by the ease before it looks
\* at the quality, so the call raises when either is infinite.
CeilRaises(c, q) ==
    IF q = 1
    THEN LAPSE_INTERVAL_FACTOR > 0 /\ c.interval_days = Infinity
    ELSE /\ ~IsLearning(c.interval_days, c.reviews)
         /\ (c.interval_days = Infinity \/ CurrentEase(c.ease_factor) = Infinity)

\* Variant: the new date counts from the card's due date when that is still ahead.
update_card_schedule_FromDueDate(c, q, day) ==
    IF CeilRaises(c, q) THEN c
    ELSE WriteBack(c, ComputeSchedule(c, q, Max(day, c.next_review_date)))

\* update_card_schedule, lines 319-389: the card dict after the call; a call
\* that raises (line 356) has written nothing to it
update_card_schedule(c, q, day) ==
    IF CeilRaises(c, q) THEN c
    ELSE WriteBack(c, ComputeSchedule(c, q, day))

-----------------------------------------------------------------------------
(* get_due_cards, lines 314-317.                                           *)

\* Variant: a card due exactly today is not selected.
IsDue_StrictlyBefore(c, day) ==
    c.next_review_date = NoDate \/ c.next_review_date < day

\* line 317: the filter condition
IsDue(c, day) ==
    c.next_review_date = NoDate \/ c.next_review_date <= day

get_due_cards(deck, day) ==
    LET Test(c) == IsDue(c, day)
    IN  SelectSeq(deck, Test)

-----------------------------------------------------------------------------
(* calculate_deck_statistics, lines 417-482.  In the returned dict the     *)
(* averages of intervals, reviews and lapses are in tenths, average_ease   *)
(* and longest_interval in hundredths; due_counts_forecast is the list of  *)
(* its (date, count) items in order; the two histograms are functions from *)
(* the labels that have an entry to their counts.                          *)

\* line 434
learning_interval_threshold == 21 * IntervalScale
young_interval_threshold == 90 * IntervalScale

\* lines 436-439
interval_bins == <<0, 100, 300, 700, 1400, 3000, 6000, 9000, 18000, 36500, Infinity>>
interval_labels ==
    <<"New/Learning (0d)", "<=1d", "2-3d", "4-7d", "8-14d", "15-30d", "1-2m", "2-3m",
      "3-6m", "6-12m", ">1y">>
ease_bins == <<0, 1300, 1500, 1800, 2000, 2200, 2400, 2600, 2800, 3000, Infinity>>
ease_labels ==
    <<"<1.3", "1.3-1.5", "1.5-1.8", "1.8-2.0", "2.0-2.2", "2.2-2.4", "2.4-2.6", "2.6-2.8",
      "2.8-3.0", ">3.0">>

\* lines 419-426: the dict before any card is counted
EmptyStats ==
    [ total_cards |-> 0, new_cards |-> 0, learning_cards |-> 0, young_cards |-> 0,
      mature_cards |-> 0, due_today |-> 0, due_tomorrow |-> 0, due_next_7_days |-> 0,
      due_counts_forecast |-> <<>>,
      average_interval_all |-> 0, average_interval_mature |-> 0, longest_interval |-> 0,
      cards_by_interval_range |-> <<>>, average_ease |-> 0, ease_distribution |-> <<>>,
      total_reviews |-> 0, total_lapses |-> 0, average_reviews_per_card |-> 0,
      average_lapses_per_card |-> 0, lapsed_card_count |-> 0 ]

RECURSIVE Sum(_)
\* a whole-number total accumulated over the cards (line 445): the sum of a
\* list of integers
Sum(values) == IF values = <<>> THEN 0 ELSE Head(values) + Sum(Tail(values))

(* Floats.  interval and ease are Python floats (IEEE doubles), and lines  *)
(* 448, 453 and 472-477 add, divide and round them as doubles.  A double    *)
(* that lies next to the fraction V / scale is the record                  *)
(* [V, scale, s, c], which stands for the number                           *)
(*     V / scale + c / (scale * 2^s),                                      *)
(* a multiple of 2^-s.  A sum of two of them, and the nearest double to    *)
(* any such number, are then computed exactly in small whole numbers.      *)
(* An operand is bound with \in where it is used more than once, so that   *)
(* it is computed once.                                                    *)

RECURSIVE Pow2(_)
Pow2(k) == IF k <= 0 THEN 1 ELSE 2 * Pow2(k - 1)

RECURSIVE Pow10(_)
Pow10(k) == IF k <= 0 THEN 1 ELSE 10 * Pow10(k - 1)

RECURSIVE Pow2Mod(_, _)
\* 2^k % m, by squaring
Pow2Mod(k, m) ==
    IF k <= 0 THEN 1 % m
    ELSE CHOOSE r \in { IF k % 2 = 0 THEN (half * half) % m
                        ELSE (2 * ((half * half) % m)) % m :
                        half \in {Pow2Mod(k \div 2, m)} } : TRUE

\* (v * 2^k) % m
TimesPow2Mod(v, k, m) == ((v % m) * Pow2Mod(k, m)) % m

RECURSIVE Log2(_)
\* floor(log2 n) of a whole n >= 1
Log2(n) == IF n < 2 THEN 0 ELSE 1 + Log2(n \div 2)

RECURSIVE Doublings(_, _)
\* the least k with V * 2^k >= scale, for 0 < V
Doublings(V, scale) == IF V >= scale THEN 0 ELSE 1 + Doublings(2 * V, scale)

\* floor(log2 x) of the positive x = V / scale + C / (scale * 2^sC), where C
\* moves x by less than one unit of its last place: the doubles around x are
\* the multiples of 2^(this - 52)
BinaryExponent(V, scale, C) ==
    LET Exact(E) == IF E >= 0 THEN V = scale * Pow2(E) ELSE V * Pow2(0 - E) = scale
        Lowered(E) == IF Exact(E) /\ C < 0 THEN E - 1 ELSE E
    IN  CHOOSE r \in { Lowered(E) : E \in { IF V >= scale THEN Log2(V \div scale)
                                           ELSE 0 - Doublings(V, scale) } } : TRUE

\* the double nearest to sign * (V / scale + C / (scale * 2^sC0)), for V > 0
\* and sign 1 or -1: a tie goes to the even mantissa, as in every float
\* operation
NearestAboveZero(sign, V, scale, sC0, C) ==
    LET Result(s, t, Cf, U, rem, rem2) ==
            LET up == 2 * rem > U \/ (2 * rem = U /\ rem2 # rem)
                num == Cf - rem + (IF up THEN U ELSE 0)
            IN  [V |-> sign * V, scale |-> scale, s |-> s, c |-> sign * (num \div Pow2(t))]
        Remainders(s, t, Cf, U) ==
            CHOOSE r \in { Result(s, t, Cf, U, rem, rem2) :
                             rem \in {(Pow2(t) * TimesPow2Mod(V, s, scale) + Cf) % U},
                             rem2 \in {(Pow2(t) * TimesPow2Mod(V, s, 2 * scale) + Cf)
                                          % (2 * U)} } : TRUE
        Aligned(s, sC) ==
            LET sf == IF sC > s THEN sC ELSE s
            IN  CHOOSE r \in { Remainders(s, sf - s, Cf, U) :
                                 Cf \in {C * Pow2(sf - sC)},
                                 U \in {scale * Pow2(sf - s)} } : TRUE
    IN  CHOOSE r \in { Aligned(s, IF C = 0 THEN s ELSE sC0) :
                         s \in {52 - BinaryExponent(V, scale, C)} } : TRUE

\* the double nearest to V0 / scale0 + C0 / (scale0 * 2^sC0); with V0 = 0 the
\* number is what is left of a sum that cancelled, which is a double itself
NearestDouble(V0, scale0, sC0, C0) ==
    LET Nearest(V, scale, sC, C) ==
            IF V = 0 THEN [V |-> 0, scale |-> scale, s |-> sC, c |-> C]
            ELSE IF V < 0 THEN NearestAboveZero(-1, 0 - V, scale, sC, 0 - C)
            ELSE NearestAboveZero(1, V, scale, sC, C)
    IN  CHOOSE r \in { Nearest(V, scale, sC, C) :
                         V \in {V0}, scale \in {scale0}, sC \in {sC0}, C \in {C0} } : TRUE

\* lines 442-443: the float of a card whose value is v / scale (the literal,
\* the float() of the file's text or the round() that wrote it)
Double(v, scale) == NearestDouble(v, scale, 0, 0)

\* left + right of two floats (the += of lines 448 and 453)
FloatAdd(left, right) ==
    LET Added(x, y) ==
            IF x.V = 0 /\ x.c = 0 THEN y
            ELSE IF y.V = 0 /\ y.c = 0 THEN x
            ELSE LET sm == IF x.s > y.s THEN x.s ELSE y.s
                 IN  NearestDouble(x.V + y.V, x.scale, sm,
                                   x.c * Pow2(sm - x.s) + y.c * Pow2(sm - y.s))
    IN  CHOOSE total \in { Added(x, y) : x \in {left}, y \in {right} } : TRUE

RECURSIVE FloatSumOfFirst(_, _, _)
\* the total after the first n values
FloatSumOfFirst(n, values, scale) ==
    IF n = 0 THEN Double(0, scale)
    ELSE FloatAdd(FloatSumOfFirst(n - 1, values, scale), Double(values[n], scale))

\* lines 432-433, 448, 453: a float total that starts at 0.0 and takes the
\* values, each value / scale, one after the other in the order of the list
FloatSum(values, scale) == FloatSumOfFirst(Len(values), values, scale)

\* Python's round(number, ndigits) of a float, in units of 10^-ndigits: the
\* number to the nearest; it is halfway only when c = 0, and then the even
\* neighbour is taken
round(number, ndigits) ==
    LET AboveZero(V, scale, c) ==
            LET A == V * Pow10(ndigits)
                q == A \div scale
                r == A % scale
            IN  IF 2 * r < scale THEN q
                ELSE IF 2 * r > scale THEN q + 1
                ELSE IF c > 0 THEN q + 1
                ELSE IF c < 0 THEN q
                ELSE IF q % 2 = 0 THEN q ELSE q + 1
        Rounded(x) ==
            IF x.V = 0 THEN 0
            ELSE IF x.V < 0 THEN 0 - AboveZero(0 - x.V, x.scale, 0 - x.c)
            ELSE AboveZero(x.V, x.scale, x.c)
    IN  CHOOSE r \in { Rounded(x) : x \in {number} } : TRUE

\* lines 472-477, round(total / count, ndigits) in units of 10^-ndigits:
\* the quotient is the double nearest to total / count (a total that
\* cancelled to less than one unit of the last place rounds to 0)
RoundedAverage(total, count, ndigits) ==
    LET Average(t) ==
            IF t.V = 0 THEN 0
            ELSE round(NearestDouble(t.V, t.scale * count, t.s, t.c), ndigits)
    IN  CHOOSE r \in { Average(t) : t \in {total} } : TRUE

\* lines 476-477: the float quotient of two ints, rounded
RoundedIntAverage(total, count, ndigits) ==
    RoundedAverage([V |-> total, scale |-> 1, s |-> 0, c |-> 0], count, ndigits)

\* Variant: a never-reviewed card with a long interval is put in the bucket
\* of its interval as well.
Maturity_ByIntervalOnly(c) ==
    IF c.interval_days < learning_interval_threshold
    THEN IF c.reviews = 0 THEN "new" ELSE "learning"
    ELSE IF c.interval_days < young_interval_threshold THEN "young"
    ELSE "mature"

\* lines 444, 450-453: the maturity bucket of a card
Maturity(c) ==
    IF c.reviews = 0 THEN "new"
    ELSE IF c.interval_days < learning_interval_threshold THEN "learning"
    ELSE IF c.interval_days < young_interval_threshold THEN "young"
    ELSE "mature"

\* Variant: the bins are closed below and open above.
IntervalLabels_ClosedBelow(interval) ==
    LET hits == { i \in 1..(Len(interval_bins) - 1) :
                    interval_bins[i] <= interval /\ interval < interval_bins[i + 1] }
    IN  IF hits # {}
        THEN LET i == CHOOSE h \in hits : \A g \in hits : h <= g
             IN  IF i = 1 THEN {interval_labels[1]} ELSE {interval_labels[i + 1]}
        ELSE {}

\* lines 454-458: the labels of cards_by_interval_range that one card adds
\* to (one label, or none)
IntervalLabels(interval) ==
    LET Zero(i) == interval = 0 /\ interval_bins[i] = 0
        Inside(i) == interval_bins[i] < interval /\ interval <= interval_bins[i + 1]
        hits == { i \in 1..(Len(interval_bins) - 1) : Zero(i) \/ Inside(i) }
    IN  IF hits # {}
        THEN LET i == CHOOSE h \in hits : \A g \in hits : h <= g
             IN  IF Zero(i) THEN {interval_labels[1]} ELSE {interval_labels[i + 1]}
        ELSE IF interval > interval_bins[Len(interval_bins) - 1]
             THEN {interval_labels[Len(interval_labels)]}
             ELSE {}

\* Variant: never-reviewed cards are put in an ease band too.
EaseLabels_AllCards(c) ==
    LET hits == { i \in 1..(Len(ease_bins) - 1) :
                    ease_bins[i] <= c.ease_factor /\ c.ease_factor < ease_bins[i + 1] }
    IN  IF hits # {}
        THEN {ease_labels[CHOOSE h \in hits : \A g \in hits : h <= g]}
        ELSE IF c.ease_factor >= ease_bins[Len(ease_bins) - 1]
             THEN {ease_labels[Len(ease_labels)]}
             ELSE {}

\* lines 459-463: the labels of ease_distribution that one card adds to
EaseLabels(c) ==
    LET hits == { i \in 1..(Len(ease_bins) - 1) :
                    ease_bins[i] <= c.ease_factor /\ c.ease_factor < ease_bins[i + 1] }
    IN  IF c.reviews = 0 THEN {}
        ELSE IF hits # {}
        THEN {ease_labels[CHOOSE h \in hits : \A g \in hits : h <= g]}
        ELSE IF c.ease_factor >= ease_bins[Len(ease_bins) - 1]
             THEN {ease_labels[Len(ease_labels)]}
             ELSE {}

\* Variant: only the cards due exactly today are counted.
DueTodayCounted_ExactlyToday(c, day) ==
    IF c.next_review_date # NoDate THEN c.next_review_date = day ELSE c.reviews = 0

\* lines 464, 466, 469: the card adds to due_today
DueTodayCounted(c, day) ==
    IF c.next_review_date # NoDate THEN c.next_review_date <= day ELSE c.reviews = 0

\* Variant: the last day of the horizon is left out.
ForecastDates_EndExcluded(c, day, horizon) ==
    IF c.next_review_date # NoDate
    THEN IF c.next_review_date < day + horizon /\ c.next_review_date >= day
         THEN {c.next_review_date} ELSE {}
    ELSE IF c.reviews = 0 THEN {day} ELSE {}

\* lines 464-465, 469: the dates of the raw forecast that one card adds to
ForecastDates(c, day, horizon) ==
    IF c.next_review_date # NoDate
    THEN IF c.next_review_date <= day + horizon /\ c.next_review_date >= day
         THEN {c.next_review_date} ELSE {}
    ELSE IF c.reviews = 0 THEN {day} ELSE {}

\* lines 478-479: one item per day of the horizon, in the order of the dates
FullForecast(deck, day, horizon) ==
    LET Raw(d) == Cardinality({ i \in DOMAIN deck : d \in ForecastDates(deck[i], day, horizon) })
    IN  [k \in 1..(horizon + 1) |-> [date |-> day + k - 1, count |-> Raw(day + k - 1)]]

\* Variant: the averages start as None (-1 here) and stay so when the
\* function returns early.
StatsOfEmpty_AveragesUnset(day, horizon) ==
    [EmptyStats EXCEPT !.average_interval_all = -1, !.average_interval_mature = -1,
                       !.average_ease = -1, !.average_reviews_per_card = -1,
                       !.average_lapses_per_card = -1]

\* line 427: the dict returned for an empty collection
StatsOfEmpty(day, horizon) == EmptyStats

calculate_deck_statistics(deck, horizon, day) ==
    LET Count(Test(_)) == Cardinality({ i \in DOMAIN deck : Test(deck[i]) })
        IsNew(c) == c.reviews = 0
        NotNew(c) == ~IsNew(c)
        IsMature(c) == Maturity(c) = "mature"
        IntervalIfNotNew(c) == IF IsNew(c) THEN 0 ELSE c.interval_days
        Lapsed(c) == c.lapses > 0
        InBucket(b) == Cardinality({ i \in DOMAIN deck : Maturity(deck[i]) = b })
        DueToday(c) == DueTodayCounted(c, day)
        DueTomorrow(c) == c.next_review_date # NoDate /\ c.next_review_date = day + 1
        DueNext7(c) == /\ c.next_review_date # NoDate
                       /\ day + 1 <= c.next_review_date
                       /\ c.next_review_date <= day + 7
        n == Len(deck)
        non_new_card_count == Count(NotNew)
        mature_card_count == Count(IsMature)
        not_new == SelectSeq(deck, NotNew)
        mature == SelectSeq(deck, IsMature)
        \* a total that took an infinite float is infinite, and so is its
        \* average (lines 448, 453, 473-475)
        Unbounded(list, field) == \E i \in DOMAIN list : list[i][field] = Infinity
        total_interval_all ==
            FloatSum([i \in DOMAIN not_new |-> not_new[i].interval_days], IntervalScale)
        total_interval_mature ==
            FloatSum([i \in DOMAIN mature |-> mature[i].interval_days], IntervalScale)
        total_ease == FloatSum([i \in DOMAIN not_new |-> not_new[i].ease_factor], EaseScale)
        total_reviews == Sum([i \in DOMAIN deck |-> deck[i].reviews])
        total_lapses == Sum([i \in DOMAIN deck |-> deck[i].lapses])
        longest == { IntervalIfNotNew(deck[i]) : i \in DOMAIN deck } \cup {0}
        by_interval == UNION { IntervalLabels(deck[i].interval_days) : i \in DOMAIN deck }
        by_ease == UNION { EaseLabels(deck[i]) : i \in DOMAIN deck }
    IN  IF deck = <<>> THEN StatsOfEmpty(day, horizon)
        ELSE
        [ total_cards |-> n,
          new_cards |-> InBucket("new"),
          learning_cards |-> InBucket("learning"),
          young_cards |-> InBucket("young"),
          mature_cards |-> InBucket("mature"),
          due_today |-> Count(DueToday),
          due_tomorrow |-> Count(DueTomorrow),
          due_next_7_days |-> Count(DueNext7),
          due_counts_forecast |-> FullForecast(deck, day, horizon),
          average_interval_all |->
              IF non_new_card_count = 0 THEN 0
              ELSE IF Unbounded(not_new, "interval_days") THEN Infinity
              ELSE RoundedAverage(total_interval_all, non_new_card_count, 1),
          average_interval_mature |->
              IF mature_card_count = 0 THEN 0
              ELSE IF Unbounded(mature, "interval_days") THEN Infinity
              ELSE RoundedAverage(total_interval_mature, mature_card_count, 1),
          longest_interval |-> CHOOSE m \in longest : \A x \in longest : x <= m,
          cards_by_interval_range |->
              [l \in by_interval |->
                  Cardinality({ i \in DOMAIN deck : l \in IntervalLabels(deck[i].interval_days) })],
          average_ease |->
              IF non_new_card_count = 0 THEN 0
              ELSE IF Unbounded(not_new, "ease_factor") THEN Infinity
              ELSE RoundedAverage(total_ease, non_new_card_count, 2),
          ease_distribution |->
              [l \in by_ease |->
                  Cardinality({ i \in DOMAIN deck : l \in EaseLabels(deck[i]) })],
          total_reviews |-> total_reviews,
          total_lapses |-> total_lapses,
          average_reviews_per_card |-> RoundedIntAverage(total_reviews, n, 1),
          average_lapses_per_card |-> RoundedIntAverage(total_lapses, n, 1),
          lapsed_card_count |-> Count(Lapsed) ]

-----------------------------------------------------------------------------
(* The deck file.  Its first line is the sequence of its column names;    *)
(* a row holds the CSV strings of one line below it, as the record         *)
(* csv.DictReader makes of it under that header.  A text column is a       *)
(* string; a date column is a day number, or NoDate when its text is blank *)
(* or not in DATE_FORMAT; a numeric column is the set {v} of the float     *)
(* that float() reads from its text (Infinity, -Infinity and NaN for the   *)
(* texts float() reads as such), or {} when its text is blank or float()   *)
(* raises ValueError on it; a column the header has beyond the seven of    *)
(* save_deck holds the empty string.  A line with fewer fields than the    *)
(* header is a record without the columns it has no field for (DictReader  *)
(* gives None for them).  The texts of the model are f, b, <g>, &lt;g&gt;  *)
(* and what is left of them when a line is cut; the column names are the   *)
(* seven of save_deck and what is left of them when the header is cut.     *)

\* the one deck file of the model
DeckFile == "deck.csv"

\* the elements of a list
Range(list) == { list[k] : k \in DOMAIN list }

\* what html.escape makes of the texts of the model that it changes
EscapedTexts ==
       ("&" :> "&amp;")
    @@ ("<" :> "&lt;")
    @@ ("&l" :> "&amp;l")
    @@ ("<g" :> "&lt;g")
    @@ ("&lt" :> "&amp;lt")
    @@ ("<g>" :> "&lt;g&gt;")
    @@ ("&lt;" :> "&amp;lt;")
    @@ ("&amp;" :> "&amp;amp;")
    @@ ("&lt;g" :> "&amp;lt;g")
    @@ ("&amp;l" :> "&amp;amp;l")
    @@ ("&lt;g&" :> "&amp;lt;g&amp;")
    @@ ("&amp;lt" :> "&amp;amp;lt")
    @@ ("&lt;g&g" :> "&amp;lt;g&amp;g")
    @@ ("&amp;lt;" :> "&amp;amp;lt;")
    @@ ("&lt;g&gt" :> "&amp;lt;g&amp;gt")
    @@ ("&amp;lt;g" :> "&amp;amp;lt;g")
    @@ ("&lt;g&gt;" :> "&amp;lt;g&amp;gt;")
    @@ ("&amp;lt;g&amp;" :> "&amp;amp;lt;g&amp;amp;")
    @@ ("&amp;lt;g&amp;g" :> "&amp;amp;lt;g&amp;amp;g")
    @@ ("&amp;lt;g&amp;gt" :> "&amp;amp;lt;g&amp;amp;gt")
    @@ ("&amp;lt;g&amp;gt;" :> "&amp;amp;lt;g&amp;amp;gt;")

\* html.escape (lines 188-189, 1075-1076, 1143-1144) on the texts of the model
HtmlEscape(text) ==
    IF text \in DOMAIN EscapedTexts THEN EscapedTexts[text] ELSE text

\* what html.unescape makes of the texts of the model that it changes
UnescapedTexts ==
       ("&lt" :> "<")
    @@ ("&lt;" :> "<")
    @@ ("&amp;" :> "&")
    @@ ("&lt;g" :> "<g")
    @@ ("&amp;l" :> "&l")
    @@ ("&lt;g&" :> "<g&")
    @@ ("&amp;lt" :> "&lt")
    @@ ("&lt;g&g" :> "<g&g")
    @@ ("&amp;lt;" :> "&lt;")
    @@ ("&lt;g&gt" :> "<g>")
    @@ ("&amp;amp;" :> "&amp;")
    @@ ("&amp;lt;g" :> "&lt;g")
    @@ ("&lt;g&gt;" :> "<g>")
    @@ ("&amp;amp;l" :> "&amp;l")
    @@ ("&amp;amp;lt" :> "&amp;lt")
    @@ ("&amp;amp;lt;" :> "&amp;lt;")
    @@ ("&amp;amp;lt;g" :> "&amp;lt;g")
    @@ ("&amp;lt;g&amp;" :> "&lt;g&")
    @@ ("&amp;lt;g&amp;g" :> "&lt;g&g")
    @@ ("&amp;lt;g&amp;gt" :> "&lt;g&gt")
    @@ ("&amp;lt;g&amp;gt;" :> "&lt;g&gt;")
    @@ ("&amp;amp;lt;g&amp;amp;" :> "&amp;lt;g&amp;")
    @@ ("&amp;amp;lt;g&amp;amp;g" :> "&amp;lt;g&amp;g")
    @@ ("&amp;amp;lt;g&amp;amp;gt" :> "&amp;lt;g&amp;gt")
    @@ ("&amp;amp;lt;g&amp;amp;gt;" :> "&amp;lt;g&amp;gt;")

\* html.unescape (lines 295-296) on the texts of the model
HtmlUnescape(text) ==
    IF text \in DOMAIN UnescapedTexts THEN UnescapedTexts[text] ELSE text

\* float('nan'), what float() reads from the text "nan" (lines 135, 140,
\* 213): a value apart from every number of the model
NaN == 0 - 2 * Infinity

\* _safe_float_parse, lines 133-136
_safe_float_parse(field, default) ==
    IF field = {} THEN default ELSE CHOOSE v \in field : TRUE

\* _safe_int_parse, line 140: int() of an infinite float raises
\* OverflowError, which the except clause of line 141 does not catch
IntRaises(field) == field \in {{Infinity}, {0 - Infinity}}

\* _safe_int_parse, lines 138-141, where it returns: int() of NaN raises
\* ValueError and the default is returned
_safe_int_parse(field, default) ==
    IF field = {} \/ field = {NaN} THEN default ELSE CHOOSE v \in field : TRUE

\* max(floor, x) of lines 213 and 225: NaN is not above the floor
FloorAt(floor, x) == IF x = NaN THEN floor ELSE Max(floor, x)

\* row.get(name) of an optional column: None, which parses to the default,
\* when the line has no field for it
OptionalColumn(row, name) == IF name \in DOMAIN row THEN row[name] ELSE {}

\* The columns read with row.get(...).strip(), lines 188-194: on a line that
\* has no field for one of them .strip() raises AttributeError and the row
\* is dropped by the except of line 250.  They are the required columns of
\* line 149.
StrippedColumns == {"front", "back", "next_review_date", "interval_days"}

\* Variant: the interval column is taken as written, without the floor.
ParseRow_IntervalAsWritten(row, line_num, day) ==
    LET parsed_date == row.next_review_date
        is_new_or_invalid_date == parsed_date = NoDate
        interval_days == IF ~is_new_or_invalid_date
                         THEN _safe_float_parse(row.interval_days, INITIAL_INTERVAL_DAYS)
                         ELSE 0
        next_review_date == IF is_new_or_invalid_date THEN day ELSE parsed_date
        ease_factor == FloorAt(MINIMUM_EASE_FACTOR,
                               _safe_float_parse(OptionalColumn(row, "ease_factor"),
                                                 DEFAULT_EASE_FACTOR))
    IN  [ id |-> line_num,
          front |-> HtmlEscape(row.front), back |-> HtmlEscape(row.back),
          next_review_date |-> next_review_date,
          interval_days |-> interval_days,
          ease_factor |-> ease_factor,
          lapses |-> _safe_int_parse(OptionalColumn(row, "lapses"), 0),
          reviews |-> _safe_int_parse(OptionalColumn(row, "reviews"), 0),
          _dirty |-> FALSE ]

\* load_deck, lines 186-242: the card dict made from one row that has a field
\* for every column of StrippedColumns and on which _safe_int_parse does not
\* raise; line_num is the id
ParseRow(row, line_num, day) ==
    LET parsed_date == row.next_review_date
        is_new_or_invalid_date == parsed_date = NoDate
        interval_days == IF ~is_new_or_invalid_date
                         THEN FloorAt(MINIMUM_INTERVAL_DAYS,
                                      _safe_float_parse(row.interval_days,
                                                        INITIAL_INTERVAL_DAYS))
                         ELSE 0
        next_review_date == IF is_new_or_invalid_date THEN day ELSE parsed_date
        ease_factor == FloorAt(MINIMUM_EASE_FACTOR,
                               _safe_float_parse(OptionalColumn(row, "ease_factor"),
                                                 DEFAULT_EASE_FACTOR))
    IN  [ id |-> line_num,
          front |-> HtmlEscape(row.front), back |-> HtmlEscape(row.back),
          next_review_date |-> next_review_date,
          interval_days |-> interval_days,
          ease_factor |-> ease_factor,
          lapses |-> _safe_int_parse(OptionalColumn(row, "lapses"), 0),
          reviews |-> _safe_int_parse(OptionalColumn(row, "reviews"), 0),
          _dirty |-> FALSE ]

\* load_deck, lines 144-257: rows without front or back are skipped (line 190),
\* rows that raise are dropped (line 250); row k of the file is on line k + 1
load_deck(rows, day) ==
    LET Kept(k) == /\ StrippedColumns \subseteq DOMAIN rows[k]
                   /\ rows[k].front # "" /\ rows[k].back # ""
                   /\ ~IntRaises(OptionalColumn(rows[k], "lapses"))
                   /\ ~IntRaises(OptionalColumn(rows[k], "reviews"))
        kept == SelectSeq([k \in 1..Len(rows) |-> k], Kept)
    IN  [j \in 1..Len(kept) |-> ParseRow(rows[kept[j]], kept[j] + 1, day)]

\* save_deck, lines 292-307: the row written for one card
FormatRow(c) ==
    [ front |-> HtmlUnescape(c.front), back |-> HtmlUnescape(c.back),
      next_review_date |-> c.next_review_date,
      interval_days |-> {c.interval_days},
      ease_factor |-> {c.ease_factor},
      lapses |-> {c.lapses},
      reviews |-> {c.reviews} ]

\* Variant: only the rewrite mark decides whether the file is written.
NeedsSave_MarkedOnly(heap, deck, marked) == marked # {}

\* save_all_dirty_cards, lines 987-1005, for the one deck file: the file is
\* processed when it is marked for a rewrite or one card of deck_data is dirty
NeedsSave(heap, deck, marked) ==
    marked # {} \/ \E i \in DOMAIN deck : heap[deck[i]]._dirty

\* lines 1002-1009 and save_deck, lines 288-307: the file is rewritten with
\* every card of deck_data
DiskAfterSave(rows, heap, deck, marked) ==
    IF NeedsSave(heap, deck, marked)
    THEN [i \in DOMAIN deck |-> FormatRow(heap[deck[i]])]
    ELSE rows

-----------------------------------------------------------------------------
(* The columns save_deck writes, lines 262-286.                            *)

\* line 262
core_fields == <<"front", "back", "next_review_date", "interval_days">>

\* line 263
srs_fields == <<"ease_factor", "lapses", "reviews">>

\* line 264
base_fieldnames == core_fields \o srs_fields

\* what is left of each column name after its first k characters
NamePrefixes ==
    [
      front |->
          <<"f", "fr", "fro", "fron", "front">>,
      back |->
          <<"b", "ba", "bac", "back">>,
      next_review_date |->
          <<"n", "ne", "nex", "next", "next_", "next_r", "next_re", "next_rev",
          "next_revi", "next_revie", "next_review", "next_review_",
          "next_review_d", "next_review_da", "next_review_dat",
          "next_review_date">>,
      interval_days |->
          <<"i", "in", "int", "inte", "inter", "interv", "interva", "interval",
          "interval_", "interval_d", "interval_da", "interval_day",
          "interval_days">>,
      ease_factor |->
          <<"e", "ea", "eas", "ease", "ease_", "ease_f", "ease_fa", "ease_fac",
          "ease_fact", "ease_facto", "ease_factor">>,
      lapses |->
          <<"l", "la", "lap", "laps", "lapse", "lapses">>,
      reviews |->
          <<"r", "re", "rev", "revi", "revie", "review", "reviews">> ]

\* the column name of save_deck that a name of the model is the start of
BaseOf(name) ==
    CHOOSE b \in DOMAIN NamePrefixes : name \in Range(NamePrefixes[b])

\* len(name)
NameLength(name) ==
    IF name = "" THEN 0
    ELSE CHOOSE k \in DOMAIN NamePrefixes[BaseOf(name)] : NamePrefixes[BaseOf(name)][k] = name

\* name[:chars]
NamePrefix(name, chars) == IF chars = 0 THEN "" ELSE NamePrefixes[BaseOf(name)][chars]

\* name < other of two strings, as sorted() of line 268 compares them: the
\* column names start with seven different letters
NameBefore(name, other) ==
    LET first == <<"back", "ease_factor", "front", "interval_days", "lapses",
                   "next_review_date", "reviews">>
        Place(n) == CHOOSE k \in DOMAIN first : first[k] = BaseOf(n)
    IN  /\ other # "" /\ name # other
        /\ \/ name = ""
           \/ Place(name) < Place(other)
           \/ Place(name) = Place(other) /\ NameLength(name) < NameLength(other)

RECURSIVE sorted(_)
\* sorted(), line 268, of a set of column names
sorted(names) ==
    IF names = {} THEN <<>>
    ELSE LET least == CHOOSE n \in names : \A m \in names \ {n} : NameBefore(n, m)
         IN  <<least>> \o sorted(names \ {least})

\* lines 265-268: the keys of the cards that are neither columns of save_deck
\* nor internal.  load_deck gives a card one key for every name of the header
\* it was read under (line 246); the cards made by submit_card have none.
\* The cards of load_deck are the heap keys above 0.
extra_fields(fieldnames, deck) ==
    IF \E i \in DOMAIN deck : deck[i] > 0
    THEN sorted(Range(fieldnames) \ Range(base_fieldnames))
    ELSE <<>>

\* line 269
potential_fieldnames(fieldnames, deck) == base_fieldnames \o extra_fields(fieldnames, deck)

\* lines 270-286: the header of an existing file is kept when it names the
\* core columns, and the columns it lacks are added behind it (the loop of
\* lines 285-286 then finds every base column in place)
final_fieldnames(file, fieldnames, deck) ==
    LET potential == potential_fieldnames(fieldnames, deck)
        header == file.header
        New(f) == f \notin Range(header)
    IN  IF file.exists /\ Range(core_fields) \subseteq Range(header)
        THEN header \o SelectSeq(potential, New)
        ELSE potential

\* lines 290-307: the rows csv.DictWriter writes under these columns, every
\* column that save_deck does not fill being empty
RowsToWrite(names, rows) ==
    [i \in DOMAIN rows |->
        [name \in Range(names) |->
            IF name \in DOMAIN rows[i] THEN rows[i][name] ELSE ""]]

-----------------------------------------------------------------------------
(* The text of the file, lines 288-307, by the lengths of its fields: a    *)
(* line is its fields with a comma between two of them, ended by \r\n.     *)

\* what is left of each text of the model after its first k characters
TextPrefixes ==
       ("" :> <<>>)
    @@ ("&" :> <<"&">>)
    @@ ("<" :> <<"<">>)
    @@ ("b" :> <<"b">>)
    @@ ("f" :> <<"f">>)
    @@ ("&l" :> <<"&", "&l">>)
    @@ ("<g" :> <<"<", "<g">>)
    @@ ("&lt" :> <<"&", "&l", "&lt">>)
    @@ ("<g>" :> <<"<", "<g", "<g>">>)
    @@ ("&lt;" :> <<"&", "&l", "&lt", "&lt;">>)
    @@ ("&lt;g" :> <<"&", "&l", "&lt", "&lt;", "&lt;g">>)
    @@ ("&lt;g&" :> <<"&", "&l", "&lt", "&lt;", "&lt;g", "&lt;g&">>)
    @@ ("&lt;g&g" :> <<"&", "&l", "&lt", "&lt;", "&lt;g", "&lt;g&", "&lt;g&g">>)
    @@ ("&lt;g&gt" :> <<"&", "&l", "&lt", "&lt;", "&lt;g", "&lt;g&", "&lt;g&g",
                        "&lt;g&gt">>)
    @@ ("&lt;g&gt;" :> <<"&", "&l", "&lt", "&lt;", "&lt;g", "&lt;g&", "&lt;g&g",
                         "&lt;g&gt", "&lt;g&gt;">>)

\* len(text)
TextLength(text) == Len(TextPrefixes[text])

\* text[:chars]
TextPrefix(text, chars) == IF chars = 0 THEN "" ELSE TextPrefixes[text][chars]

\* the number of decimal digits of a natural number
RECURSIVE Digits(_)
Digits(n) == IF n < 10 THEN 1 ELSE 1 + Digits(n \div 10)

\* the length of a date in DATE_FORMAT (line 53), yyyy-mm-dd
DateLength == 10

\* the number of digits str() shows behind the point of a float rounded to
\* `places` places whose digits there are `fraction`: all but the zeros at
\* the end, and one at least
RECURSIVE Decimals(_, _)
Decimals(fraction, places) ==
    IF places <= 1 \/ fraction % 10 # 0 THEN places
    ELSE Decimals(fraction \div 10, places - 1)

\* len() of the text save_deck writes for x (lines 303-306: str(round(x, 2)),
\* str(round(x, 3)), str(x)); x is in units of 1/scale
NumberLength(x, scale) ==
    LET magnitude == IF x < 0 THEN 0 - x ELSE x
        sign == IF x < 0 THEN 1 ELSE 0
    IN  IF magnitude = Infinity THEN sign + 3
        ELSE IF scale = 1 THEN sign + Digits(magnitude)
        ELSE sign + Digits(magnitude \div scale) + 1
                 + Decimals(magnitude % scale, Digits(scale) - 1)

\* the numeric columns of save_deck, lines 303-306
NumberColumns == {"interval_days", "ease_factor", "lapses", "reviews"}

\* the units of the model in the numeric column `name`
ScaleOf(name) ==
    CASE name = "interval_days" -> IntervalScale
      [] name = "ease_factor" -> EaseScale
      [] OTHER -> 1

\* len() of the field written in column `name` of a row of RowsToWrite
FieldLength(name, row) ==
    CASE name \in {"front", "back"} -> TextLength(row[name])
      [] name = "next_review_date" -> IF row[name] = NoDate THEN 0 ELSE DateLength
      [] name \in NumberColumns ->
             NumberLength(CHOOSE v \in row[name] : TRUE, ScaleOf(name))
      [] OTHER -> 0

\* the lengths of the fields of each line save_deck writes: the header
\* (line 290), then one line for every card (line 307)
LinesToWrite(names, rows) ==
    <<[k \in DOMAIN names |-> NameLength(names[k])]>>
        \o [i \in DOMAIN rows |-> [k \in DOMAIN names |-> FieldLength(names[k], rows[i])]]

\* the length of a line: its fields, the commas between them, \r\n
LineLength(fields) == Sum(fields) + (Len(fields) - 1) + 2

\* the number of bytes before line i of the file
RECURSIVE LineStart(_, _)
LineStart(lines, i) ==
    IF i <= 1 THEN 0 ELSE LineStart(lines, i - 1) + LineLength(lines[i - 1])

\* the length of the file
FileLength(lines) == LineStart(lines, Len(lines) + 1)

\* the number of characters of a line before its field k
FieldStart(fields, k) == Sum(SubSeq(fields, 1, k - 1)) + (k - 1)

\* What csv.reader makes of the first m characters (m > 0) of a line: the
\* fields it finds, and the number of characters of the last of them.  A cut
\* right behind a comma leaves a last field that is empty.
CutLine(fields, m) ==
    LET begun == { k \in DOMAIN fields : FieldStart(fields, k) <= m }
        last == CHOOSE k \in begun : \A j \in begun : j <= k
        chars == m - FieldStart(fields, last)
    IN  [fields |-> last,
         chars |-> IF chars <= fields[last] THEN chars ELSE fields[last]]

-----------------------------------------------------------------------------
(* The file system as save_deck finds it: healthy, refusing the open of    *)
(* line 289, or refusing the bytes beyond a limit.  The file object        *)
(* buffers what the writer hands it and a deck of the size modelled stays  *)
(* in the buffer, so a refused byte raises when the with-block of line 289 *)
(* closes the file, after the loop of lines 292-308 has run for every      *)
(* card; the file then holds the bytes below the limit.                    *)

NoFault == "none"
OpenFault == "open"
CloseFault == "close"

\* the conditions of a file system that fails
WriteFaults == {OpenFault, CloseFault}

\* What a save that writes `length` bytes meets on a file system in the
\* condition `condition`: a file system that refuses bytes takes fewer
\* than the save writes, any number of them.
FaultsMet(condition, length) ==
    IF condition = CloseFault
    THEN { [at |-> CloseFault, limit |-> l] : l \in 0..(length - 1) }
    ELSE { [at |-> condition, limit |-> 0] }

\* save_deck, lines 288-312: the save ends in one of the except clauses
SaveFails(fault) == fault.at \in WriteFaults

\* save_deck, lines 292-308: the cards for which the loop body completed
RowsWritten(deck, fault) ==
    CASE fault.at = NoFault -> Len(deck)
      [] fault.at = OpenFault -> 0
      [] fault.at = CloseFault -> Len(deck)

\* line i of the text is in the file with all its fields (the \r\n behind
\* it may be missing)
LineWhole(lines, i, limit) == limit >= LineStart(lines, i + 1) - 2

\* the complete rows, of the `rows` save_deck was to write, that the file
\* holds after the with-block of line 289; `lines` is the text of the save
KeptRows(rows, lines, fault) ==
    CASE fault.at = NoFault -> Len(rows)
      [] fault.at = OpenFault -> 0
      [] fault.at = CloseFault ->
             Cardinality({ i \in 2..Len(lines) : LineWhole(lines, i, fault.limit) })

\* The number that float() or int() reads from the first `chars` characters
\* of the text save_deck writes for x (lines 303-306); x is in units of
\* 1/scale.  No character, the sign alone, or a part of "inf" is not a
\* number: the field parses to its default.
CutNumber(x, scale, chars) ==
    LET Magnitude(v, kept) ==
            LET whole == v \div scale
                places == Digits(scale) - 1
                decimals == kept - Digits(whole) - 1
            IN  IF v = Infinity THEN v
                ELSE IF kept <= Digits(whole)
                THEN (whole \div Pow10(Digits(whole) - kept)) * scale
                ELSE IF decimals >= places THEN v
                ELSE v - (v % Pow10(places - decimals))
    IN  IF chars = 0 \/ (x < 0 /\ chars = 1) THEN {}
        ELSE IF (x = Infinity \/ x = 0 - Infinity) /\ chars < NumberLength(x, scale) THEN {}
        ELSE IF x < 0 THEN {0 - Magnitude(0 - x, chars - 1)}
        ELSE {Magnitude(x, chars)}

\* What strptime (line 201) makes of the first `chars` characters of the
\* text of a date.  Nine characters are a date when the day of the month
\* does not start with 0: day 10 to 31 of a month is then read as day 1, 2
\* or 3 of that month, 9 to 28 days back.  The model has no calendar, so
\* each case is a possible outcome.
TornDates(date, chars) ==
    IF date = NoDate \/ chars = DateLength THEN {date}
    ELSE IF chars = DateLength - 1
    THEN {NoDate} \cup { date - k : k \in 9..28 }
    ELSE {NoDate}

\* The header of a file cut inside its first line: the names before the cut
\* as written, the name of the cut with the characters that came through.
TornHeader(names, cut) ==
    [k \in 1..cut.fields |->
        IF k = cut.fields THEN NamePrefix(names[k], cut.chars) ELSE names[k]]

\* What the reader makes of the first `chars` characters of the field
\* written in column `last` of a row.
TornFields(row, last, chars) ==
    CASE last \in {"front", "back"} -> {TextPrefix(row[last], chars)}
      [] last = "next_review_date" -> TornDates(row[last], chars)
      [] last \in NumberColumns ->
             {CutNumber(CHOOSE v \in row[last] : TRUE, ScaleOf(last), chars)}
      [] OTHER -> {""}

\* The row of a file cut inside a line below the header: the fields before
\* the cut as written, the field of the cut with the characters that
\* came through, no field after it.
TornRows(row, names, cut) ==
    { [name \in { names[k] : k \in 1..cut.fields } |->
          IF name = names[cut.fields] THEN part ELSE row[name]] :
      part \in TornFields(row, names[cut.fields], cut.chars) }

\* the deck file as a record: whether the folder has it, its first line, the
\* rows below it
FileOf(exists, header, rows) == [exists |-> exists, header |-> header, rows |-> rows]

\* lines 290-307: the columns of the text save_deck hands to the file
\* object and the rows under them, for the rows `written` of the cards
TextUnder(names, written) == [names |-> names, rows |-> RowsToWrite(names, written)]

\* save_deck, lines 260-307: the text written for the cards of deck_data
\* over the file as it is
TextToWrite(file, fieldnames, heap, deck, marked) ==
    TextUnder(final_fieldnames(file, fieldnames, deck),
              DiskAfterSave(file.rows, heap, deck, marked))

\* The first line of a file that holds the first `limit` bytes of a text.
CutHeader(names, fields, limit) ==
    IF limit = 0 THEN <<>>
    ELSE IF limit >= LineLength(fields) - 2 THEN names
    ELSE TornHeader(names, CutLine(fields, limit))

\* The row that is left of line `kept` + 2 of a text in a file that holds
\* its first `limit` bytes and the lines before that one complete: <<>> when
\* the limit is not beyond the start of the line.
CutTails(text, lines, limit, kept, start) ==
    IF kept < Len(text.rows) /\ limit > start
    THEN { <<row>> : row \in TornRows(text.rows[kept + 1], text.names,
                                      CutLine(lines[kept + 2], limit - start)) }
    ELSE {<<>>}

\* The files that hold the first `limit` bytes of a text, `kept` of its rows
\* complete: an empty file, a header cut short, or a header and the rows
\* below the limit, the last of them cut short.
CutFiles(text, lines, limit, kept) ==
    { FileOf(TRUE, CutHeader(text.names, lines[1], limit),
             SubSeq(text.rows, 1, kept) \o tail) :
      tail \in CutTails(text, lines, limit, kept, LineStart(lines, kept + 2)) }

\* save_deck, lines 288-312: the files a save of `text`, whose lines are
\* `lines`, can leave when it meets `fault`.  A refused open leaves the file
\* as it was; open(filepath, mode='w') creates the file when the folder does
\* not have it, and a refused byte leaves the bytes below the limit.
FilesLeft(file, text, lines, fault) ==
    CASE fault.at = OpenFault -> {file}
      [] fault.at = NoFault -> {FileOf(TRUE, text.names, text.rows)}
      [] fault.at = CloseFault ->
             CutFiles(text, lines, fault.limit, KeptRows(text.rows, lines, fault))

\* save_deck, lines 288-312, on a file system in the condition `condition`:
\* the ways the save of `text` can end, each with the fault met, the file
\* left and the number of rows of the text that the file holds complete
SavesOfText(file, text, lines, condition) ==
    UNION { { [fault |-> fault, file |-> left,
               kept |-> KeptRows(text.rows, lines, fault)] :
              left \in FilesLeft(file, text, lines, fault) } :
            fault \in FaultsMet(condition, FileLength(lines)) }

\* save_deck, lines 260-312: the ways the save of these cards can end
SavesOfCards(file, text, condition) ==
    SavesOfText(file, text, LinesToWrite(text.names, text.rows), condition)

\* save_all_dirty_cards, lines 987-1009: the ways its call can end.  A deck
\* that needs no save is not written.
SavesOf(file, fieldnames, heap, deck, marked, condition) ==
    IF NeedsSave(heap, deck, marked)
    THEN SavesOfCards(file, TextToWrite(file, fieldnames, heap, deck, marked), condition)
    ELSE {[fault |-> [at |-> NoFault, limit |-> 0], file |-> file, kept |-> 0]}

\* save_deck, line 308: the flag of every card written is reset
HeapAfterSave(heap, deck, marked, fault) ==
    IF NeedsSave(heap, deck, marked)
    THEN [id \in DOMAIN heap |->
             IF \E i \in 1..RowsWritten(deck, fault) : deck[i] = id
             THEN [heap[id] EXCEPT !._dirty = FALSE]
             ELSE heap[id]]
    ELSE heap

\* the fields of a card that have a column in the file
Written(c) ==
    [ front |-> c.front, back |-> c.back,
      next_review_date |-> c.next_review_date,
      interval_days |-> c.interval_days,
      ease_factor |-> c.ease_factor,
      lapses |-> c.lapses,
      reviews |-> c.reviews ]

\* bookkeeping for synced (no program state): the cards whose rows are in
\* the file after a save that kept `kept_rows` complete rows
SyncedAfterSave(s, heap, deck, marked, fault, kept_rows) ==
    LET rewritten == NeedsSave(heap, deck, marked) /\ fault.at # OpenFault
        written == IF rewritten THEN { deck[i] : i \in 1..kept_rows } ELSE {}
        lost == IF rewritten THEN { deck[i] : i \in (kept_rows + 1)..Len(deck) } ELSE {}
        kept == ((DOMAIN s \cap DOMAIN heap) \ lost) \cup written
    IN  [id \in kept |-> IF id \in written THEN Written(heap[id]) ELSE s[id]]

\* bookkeeping for failed_save (no program state): what a save that failed
\* was given and how many of its rows the file holds
FailedSave(heap, deck, marked, fault, kept_rows) ==
    IF NeedsSave(heap, deck, marked) /\ SaveFails(fault)
    THEN {[heap |-> heap, deck |-> deck, rows |-> kept_rows]}
    ELSE {}

-----------------------------------------------------------------------------
(* The review session of FlashcardApp.  current_card_index is 0-based as   *)
(* in the program; the card under review is due_cards[index + 1].          *)

\* every event of a behaviour is taken from the budget the behaviour starts with
Step == steps > 0 /\ steps' = steps - 1

\* the test of lines 799, 876, 914
ValidIndex(idx, queue) == 0 <= idx /\ idx < Len(queue)

\* Variant: the failed card stays where it is.
Requeue_Stay(queue, idx) == queue

\* Variant: the failed card is put back one place before the end.
Requeue_NearEnd(queue, idx) ==
    LET rest == [k \in 1..(Len(queue) - 1) |->
                    IF k <= idx THEN queue[k] ELSE queue[k + 1]]
        pos  == IF Len(rest) = 0 THEN 0 ELSE Len(rest) - 1
    IN  SubSeq(rest, 1, pos) \o <<queue[idx + 1]>> \o SubSeq(rest, pos + 1, Len(rest))

\* Variant: the failed card is appended without being popped first.
Requeue_AppendOnly(queue, idx) == Append(queue, queue[idx + 1])

\* lines 919-920: due_cards.pop(current_card_index); due_cards.append(card)
Requeue(queue, idx) ==
    [k \in 1..Len(queue) |->
        IF k <= idx THEN queue[k]
        ELSE IF k < Len(queue) THEN queue[k + 1]
        ELSE queue[idx + 1]]

\* Variant: the index moves on after every rating.
NextIndex_AlwaysAdvance(idx, q) == idx + 1

\* lines 918-924: the index stays on Again (the list shifted), else moves on
NextIndex(idx, q) == IF q = 1 THEN idx ELSE idx + 1

\* random.shuffle, line 967: any order of the list
Shuffles(queue) ==
    { [k \in 1..Len(queue) |-> queue[p[k]]] : p \in Permutations(1..Len(queue)) }

\* the card display_card puts on screen (lines 799, 844), as a set: {} when
\* the index is outside the queue
OnScreen(queue, idx) == IF ValidIndex(idx, queue) THEN {queue[idx + 1]} ELSE {}

\* Variant: the branch for an index outside the queue leaves the session
\* flag as it is.
display_card_StaysActive(queue, idx) ==
    /\ _is_review_active' = (_is_review_active \/ ValidIndex(idx, queue))
    /\ showing_answer' = (IF ValidIndex(idx, queue) THEN FALSE ELSE showing_answer)

\* Variant: a new card comes on screen with the answer flag left as it is.
display_card_KeepsAnswerFlag(queue, idx) ==
    /\ _is_review_active' = ValidIndex(idx, queue)
    /\ showing_answer' = showing_answer

\* display_card, lines 795-870, for the queue and index it finds
display_card(queue, idx) ==
    /\ _is_review_active' = ValidIndex(idx, queue)
    /\ showing_answer' = (IF ValidIndex(idx, queue) THEN FALSE ELSE showing_answer)

\* bookkeeping for owed (no program state): a card that comes on screen is no
\* longer owed to the others
Settle(o, shown) == [c \in DOMAIN o |-> IF c \in shown THEN o[c] ELSE o[c] \ shown]

\* the dicts still referenced by deck_data or due_cards
Referenced(heap, deck, queue) ==
    LET live == { deck[i] : i \in DOMAIN deck } \cup { queue[k] : k \in DOMAIN queue }
    IN  [id \in DOMAIN heap \cap live |-> heap[id]]

\* No message box is open: the next handler starts from the event loop.
NoDialog == [box |-> "none", then |-> "none"]

\* save_deck, lines 309-312: the modal box Save Error; `then` is what the
\* caller of save_all_dirty_cards goes on with once the box is closed
SaveError(then) == [box |-> "Save Error", then |-> then]

\* load_selected_decks, line 947: the modal box Empty Deck
EmptyDeck == [box |-> "Empty Deck", then |-> "none"]

\* load_selected_decks, line 951: the modal box No Cards
NoCards == [box |-> "No Cards", then |-> "none"]

\* load_deck, lines 160-174: the modal box Error, for a file that is empty or
\* whose first line does not name the required columns
LoadError == [box |-> "Error", then |-> "none"]

\* open_stats_window, line 1189: the modal box Statistics
NoDeckData == [box |-> "Statistics", then |-> "none"]

\* the deck file as the file system has it
File == FileOf(file_exists, file_header, disk)

\* save_deck, lines 309-312: the save ends in an except clause and the box
\* Save Error is shown
SaveErrorShown(heap, deck, marked) ==
    NeedsSave(heap, deck, marked) /\ write_fault \in WriteFaults

\* the ways a call of save_all_dirty_cards on these cards can end, on the
\* file and the file system as they are
Saves(heap, deck, marked) ==
    SavesOf(File, file_specific_fieldnames, heap, deck, marked, write_fault)

\* save_all_dirty_cards, lines 985-1014, called on the heap, deck_data and
\* rewrite marks its caller has prepared, up to its return or, when the save
\* fails, up to the box Save Error that save_deck opens (line 1014 then runs
\* when the box is closed); `then` is what the caller does after the call
save_all_dirty_cards(heap, deck, marked, then) ==
    \E save \in Saves(heap, deck, marked) :
        /\ disk' = save.file.rows
        /\ file_exists' = save.file.exists
        /\ file_header' = save.file.header
        /\ synced' = SyncedAfterSave(synced, heap, deck, marked, save.fault, save.kept)
        /\ cards' = HeapAfterSave(heap, deck, marked, save.fault)
        /\ failed_save' = FailedSave(heap, deck, marked, save.fault, save.kept)
        /\ IF SaveErrorShown(heap, deck, marked)
           THEN /\ files_needing_full_save' = marked
                /\ dialog' = SaveError(then)
           ELSE /\ files_needing_full_save' = {}
                /\ dialog' = NoDialog

\* reset_session_state, lines 1020-1022: the assignments after the save
clear_session_state ==
    /\ current_deck_paths' = <<>>
    /\ deck_data' = <<>>
    /\ file_specific_fieldnames' = <<>>
    /\ cards' = <<>>
    /\ due_cards' = <<>>
    /\ current_card_index' = -1
    /\ showing_answer' = FALSE
    /\ _is_review_active' = FALSE
    /\ files_needing_full_save' = {}
    /\ dialog' = NoDialog
    /\ session_rating' = <<>>
    /\ owed' = <<>>

\* Variant: the session is cleared without the save of line 1019.
reset_session_state_WithoutSave ==
    /\ clear_session_state
    /\ failed_save' = {}
    /\ UNCHANGED <<disk, synced, file_exists, file_header>>

\* reset_session_state, lines 1017-1022: save_all_dirty_cards first (line
\* 1019), then the session is cleared; when the save fails the function
\* waits in the box Save Error with the session still in place
reset_session_state ==
    \E save \in Saves(cards, deck_data, files_needing_full_save) :
        /\ disk' = save.file.rows
        /\ file_exists' = save.file.exists
        /\ file_header' = save.file.header
        /\ synced' = SyncedAfterSave(synced, cards, deck_data, files_needing_full_save,
                                     save.fault, save.kept)
        /\ failed_save' = FailedSave(cards, deck_data, files_needing_full_save,
                                     save.fault, save.kept)
        /\ IF SaveErrorShown(cards, deck_data, files_needing_full_save)
           THEN /\ cards' = HeapAfterSave(cards, deck_data, files_needing_full_save,
                                          save.fault)
                /\ dialog' = SaveError("reset")
                /\ UNCHANGED <<current_deck_paths, file_specific_fieldnames, deck_data,
                               due_cards, current_card_index, showing_answer,
                               _is_review_active, files_needing_full_save,
                               session_rating, owed>>
           ELSE clear_session_state

\* load_deck, lines 160-174: the file has a first line that names the
\* required columns
HeaderRead(file) ==
    file.exists /\ StrippedColumns \subseteq Range(file.header)

\* load_selected_decks, lines 941-982, after the save of line 939: `file` is
\* the deck file, `heap` are the dicts in memory.  With no card loaded the
\* handler waits in a box, with the old queue still in place: in the box
\* Error of load_deck when the file is empty or its first line does not name
\* the required columns, else in Empty Deck or, when the folder does not
\* have the file, in No Cards.
read_selected_decks(file, heap) ==
    LET loaded == IF HeaderRead(file) THEN load_deck(file.rows, today) ELSE <<>>
        due == get_due_cards(loaded, today)
    IN  IF loaded = <<>>
        THEN /\ current_deck_paths' = <<>>
             /\ file_specific_fieldnames' = <<>>
             /\ deck_data' = <<>>
             /\ files_needing_full_save' = {}
             /\ cards' = Referenced(heap, <<>>, due_cards)
             /\ synced' = <<>>
             /\ dialog' = IF ~file.exists THEN NoCards
                          ELSE IF HeaderRead(file) THEN EmptyDeck ELSE LoadError
             /\ UNCHANGED <<due_cards, current_card_index, showing_answer,
                            _is_review_active, session_rating, owed>>
        ELSE /\ deck_data' = [j \in DOMAIN loaded |-> loaded[j].id]
             /\ file_specific_fieldnames' = file.header
             /\ cards' = [id \in { loaded[j].id : j \in DOMAIN loaded } |->
                             CHOOSE c \in { loaded[j] : j \in DOMAIN loaded } : c.id = id]
             /\ synced' = [id \in { loaded[j].id : j \in DOMAIN loaded } |->
                              Written(CHOOSE c \in { loaded[j] : j \in DOMAIN loaded } :
                                          c.id = id)]
             /\ current_deck_paths' = <<DeckFile>>
             /\ files_needing_full_save' = {}
             /\ dialog' = NoDialog
             /\ \E queue \in Shuffles([j \in DOMAIN due |-> due[j].id]) :
                    /\ due_cards' = queue
                    /\ session_rating' = [id \in { queue[k] : k \in DOMAIN queue } |-> 0]
                    /\ owed' = [id \in { queue[k] : k \in DOMAIN queue } |-> {}]
             /\ current_card_index' = 0
             /\ IF due = <<>>
                THEN /\ _is_review_active' = FALSE
                     /\ UNCHANGED showing_answer
                ELSE display_card(due, 0)

\* load_selected_decks, lines 933-982, with the deck file selected in the
\* list: the save of line 939, which may end in the box Save Error, and then
\* the rest of the handler
load_selected_decks ==
    /\ ~closed /\ dialog = NoDialog
    /\ available_decks # <<>>
    /\ Step
    /\ \E save \in Saves(cards, deck_data, files_needing_full_save) :
           /\ disk' = save.file.rows
           /\ file_exists' = save.file.exists
           /\ file_header' = save.file.header
           /\ failed_save' = FailedSave(cards, deck_data, files_needing_full_save,
                                        save.fault, save.kept)
           /\ IF SaveErrorShown(cards, deck_data, files_needing_full_save)
              THEN /\ cards' = HeapAfterSave(cards, deck_data, files_needing_full_save,
                                             save.fault)
                   /\ synced' = SyncedAfterSave(synced, cards, deck_data,
                                                files_needing_full_save, save.fault,
                                                save.kept)
                   /\ dialog' = SaveError("load")
                   /\ UNCHANGED <<deck_data, due_cards, current_card_index,
                                  showing_answer, _is_review_active, current_deck_paths,
                                  file_specific_fieldnames, files_needing_full_save,
                                  session_rating, owed>>
              ELSE read_selected_decks(save.file,
                                       HeapAfterSave(cards, deck_data,
                                                     files_needing_full_save, save.fault))
    /\ last_again' = {}
    /\ UNCHANGED <<today, fnVars, closed, write_fault, available_decks, stats_window>>

\* The box Save Error is closed: save_all_dirty_cards clears the rewrite
\* marks (line 1014) and returns to its caller, which goes on:
\* load_selected_decks from line 940, reset_session_state from line 1020,
\* on_close to the clean-up of lines 1306-1332, which closes the statistics
\* window, and the destroy of line 1334, the other handlers to their end.
save_error_closed ==
    /\ dialog.box = "Save Error"
    /\ CASE dialog.then = "load" ->
                /\ read_selected_decks(File, cards)
                /\ failed_save' = {}
                /\ UNCHANGED <<closed, stats_window>>
         [] dialog.then = "reset" ->
                /\ clear_session_state
                /\ failed_save' = {}
                /\ UNCHANGED <<closed, synced, stats_window>>
         [] OTHER ->
                /\ files_needing_full_save' = {}
                /\ closed' = (dialog.then = "destroy")
                /\ stats_window' = (stats_window /\ dialog.then # "destroy")
                /\ dialog' = NoDialog
                /\ UNCHANGED <<cards, deck_data, due_cards, current_card_index,
                               showing_answer, _is_review_active, current_deck_paths,
                               file_specific_fieldnames,
                               failed_save, session_rating, owed, synced>>
    /\ last_again' = {}
    /\ UNCHANGED <<today, fnVars, disk, write_fault, steps, available_decks, file_exists,
                   file_header>>

\* load_selected_decks, line 945: the box Error of load_deck is closed and
\* load_deck returns no card (lines 161, 169, 174); line 947 then looks for
\* the file again: the box Empty Deck opens when the folder still has it,
\* else the box No Cards of line 951 is next and no path is appended
load_error_closed ==
    /\ dialog = LoadError
    /\ dialog' = (IF file_exists THEN EmptyDeck ELSE NoCards)
    /\ last_again' = {}
    /\ failed_save' = {}
    /\ UNCHANGED <<today, fnVars, disk, cards, deck_data, due_cards, current_card_index,
                   showing_answer, _is_review_active, current_deck_paths,
                   file_specific_fieldnames,
                   files_needing_full_save, closed, write_fault, steps, session_rating,
                   owed, synced, available_decks, file_exists, file_header,
                   stats_window>>

\* load_selected_decks, lines 947-951: the box Empty Deck is closed, the path
\* is appended and, no card being loaded, the box No Cards opens
empty_deck_closed ==
    /\ dialog = EmptyDeck
    /\ current_deck_paths' = <<DeckFile>>
    /\ UNCHANGED file_specific_fieldnames
    /\ dialog' = NoCards
    /\ last_again' = {}
    /\ failed_save' = {}
    /\ UNCHANGED <<today, fnVars, disk, cards, deck_data, due_cards, current_card_index,
                   showing_answer, _is_review_active, files_needing_full_save, closed,
                   write_fault, steps, session_rating, owed, synced, available_decks,
                   file_exists, file_header, stats_window>>

\* load_selected_decks, lines 951-956: the box No Cards is closed and
\* reset_session_state is called
no_cards_closed ==
    /\ dialog = NoCards
    /\ reset_session_state
    /\ last_again' = {}
    /\ UNCHANGED <<today, fnVars, closed, write_fault, steps, available_decks, stats_window>>

\* populate_deck_listbox, lines 712-752 (the button Reload List): the list
\* is filled from the folder; the session is reset when the folder has no
\* deck (line 725) or no deck is loaded (line 748)
populate_deck_listbox ==
    /\ ~closed /\ dialog = NoDialog
    /\ Step
    /\ available_decks' = (IF file_exists THEN <<DeckFile>> ELSE <<>>)
    /\ IF ~file_exists \/ current_deck_paths = <<>>
       THEN reset_session_state
       ELSE /\ failed_save' = {}
            /\ UNCHANGED <<disk, cards, deck_data, due_cards, current_card_index,
                           showing_answer, _is_review_active, current_deck_paths,
                           file_specific_fieldnames,
                           files_needing_full_save, session_rating, owed, synced,
                           dialog, file_exists, file_header>>
    /\ last_again' = {}
    /\ UNCHANGED <<today, fnVars, closed, write_fault, stats_window>>

\* the user removes the deck file from the decks folder
RemoveFile ==
    /\ ~closed
    /\ file_exists
    /\ Step
    /\ file_exists' = FALSE
    /\ file_header' = <<>>
    /\ disk' = <<>>
    /\ last_again' = {}
    /\ failed_save' = {}
    /\ UNCHANGED <<today, fnVars, cards, deck_data, due_cards, current_card_index,
                   showing_answer, _is_review_active, current_deck_paths,
                   file_specific_fieldnames,
                   files_needing_full_save, closed, write_fault, session_rating, owed,
                   synced, dialog, available_decks, stats_window>>

\* show_answer, lines 873-901
show_answer ==
    /\ ~closed /\ dialog = NoDialog
    /\ _is_review_active /\ ~showing_answer
    /\ Step
    /\ IF ~ValidIndex(current_card_index, due_cards)
       THEN display_card(due_cards, current_card_index)
       ELSE /\ showing_answer' = TRUE
            /\ UNCHANGED _is_review_active
    /\ last_again' = {}
    /\ failed_save' = {}
    /\ UNCHANGED <<today, fnVars, disk, cards, deck_data, due_cards, current_card_index,
                   current_deck_paths, file_specific_fieldnames,
                   files_needing_full_save, closed, write_fault,
                   session_rating, owed, synced,
                   uiVars>>

\* Variant: the requeue step of Again also puts the failed card's date back
\* to today.
rate_card_RequeueMarksDue(q) ==
    /\ ~closed /\ dialog = NoDialog
    /\ _is_review_active /\ showing_answer
    /\ Step
    /\ IF ValidIndex(current_card_index, due_cards)
       THEN LET id == due_cards[current_card_index + 1]
                later == { due_cards[k] : k \in (current_card_index + 2)..Len(due_cards) }
                queue == IF q = 1 THEN Requeue(due_cards, current_card_index) ELSE due_cards
                idx == NextIndex(current_card_index, q)
                rated == update_card_schedule(cards[id], q, today)
            IN  IF CeilRaises(cards[id], q)
                THEN /\ last_again' = {}
                     /\ UNCHANGED <<cards, due_cards, current_card_index, showing_answer,
                                    _is_review_active, session_rating, owed>>
                ELSE
                /\ cards' = [cards EXCEPT ![id] =
                                IF q = 1 THEN [rated EXCEPT !.next_review_date = today]
                                ELSE rated]
                /\ due_cards' = queue
                /\ current_card_index' = idx
                /\ display_card(queue, idx)
                /\ last_again' = IF q = 1 THEN {id} ELSE {}
                /\ session_rating' = [session_rating EXCEPT ![id] = q]
                /\ owed' = Settle(IF q = 1 THEN [owed EXCEPT ![id] = later] ELSE owed,
                                  OnScreen(queue, idx))
       ELSE /\ display_card(due_cards, current_card_index)
            /\ last_again' = {}
            /\ UNCHANGED <<cards, due_cards, current_card_index, session_rating, owed>>
    /\ failed_save' = {}
    /\ UNCHANGED <<today, fnVars, disk, deck_data, current_deck_paths,
                   file_specific_fieldnames,
                   files_needing_full_save, closed, write_fault, synced,
                   uiVars>>

\* rate_card, lines 904-929; when update_card_schedule raises (line 916) the
\* handler ends there, with the card, the queue and the answer as they were
rate_card(q) ==
    /\ ~closed /\ dialog = NoDialog
    /\ _is_review_active /\ showing_answer
    /\ Step
    /\ IF ValidIndex(current_card_index, due_cards)
       THEN LET id == due_cards[current_card_index + 1]
                later == { due_cards[k] : k \in (current_card_index + 2)..Len(due_cards) }
                queue == IF q = 1 THEN Requeue(due_cards, current_card_index) ELSE due_cards
                idx == NextIndex(current_card_index, q)
            IN  IF CeilRaises(cards[id], q)
                THEN /\ last_again' = {}
                     /\ UNCHANGED <<cards, due_cards, current_card_index, showing_answer,
                                    _is_review_active, session_rating, owed>>
                ELSE
                /\ cards' = [cards EXCEPT ![id] = update_card_schedule(@, q, today)]
                /\ due_cards' = queue
                /\ current_card_index' = idx
                /\ display_card(queue, idx)
                /\ last_again' = IF q = 1 THEN {id} ELSE {}
                /\ session_rating' = [session_rating EXCEPT ![id] = q]
                /\ owed' = Settle(IF q = 1 THEN [owed EXCEPT ![id] = later] ELSE owed,
                                  OnScreen(queue, idx))
       ELSE /\ display_card(due_cards, current_card_index)
            /\ last_again' = {}
            /\ UNCHANGED <<cards, due_cards, current_card_index, session_rating, owed>>
    /\ failed_save' = {}
    /\ UNCHANGED <<today, fnVars, disk, deck_data, current_deck_paths,
                   file_specific_fieldnames,
                   files_needing_full_save, closed, write_fault, synced,
                   uiVars>>

\* the wall-clock date moves on while the application is open
AppMidnight ==
    /\ ~closed
    /\ today < Day0 + MaxDays
    /\ Step
    /\ today' = today + 1
    /\ last_again' = {}
    /\ failed_save' = {}
    /\ UNCHANGED <<fnVars, disk, cards, deck_data, due_cards, current_card_index,
                   showing_answer, _is_review_active, current_deck_paths,
                   file_specific_fieldnames,
                   files_needing_full_save, closed, write_fault, session_rating, owed,
                   synced,
                   uiVars>>

\* line 58
STATS_FORECAST_DAYS == 30

\* the list of dicts that deck_data refers to, as handed to a function
DeckCards(heap, deck) == [i \in DOMAIN deck |-> heap[deck[i]]]

\* Variant: the handler marks the cards it has read as changed.
open_stats_window_MarksCards ==
    /\ ~closed /\ dialog = NoDialog
    /\ current_deck_paths # <<>>
    /\ Step
    /\ IF deck_data = <<>>
       THEN /\ dialog' = NoDeckData
            /\ UNCHANGED <<fnVars, cards, stats_window>>
       ELSE IF stats_window
       THEN UNCHANGED <<fnVars, cards, stats_window, dialog>>
       ELSE /\ stats_window' = TRUE
            /\ coll' = DeckCards(cards, deck_data)
            /\ forecast_days' = STATS_FORECAST_DAYS
            /\ stats' = calculate_deck_statistics(DeckCards(cards, deck_data),
                                                  STATS_FORECAST_DAYS, today)
            /\ calls' = calls + 1
            /\ at' = today
            /\ cards' = [id \in DOMAIN cards |->
                            IF id \in { deck_data[i] : i \in DOMAIN deck_data }
                            THEN [cards[id] EXCEPT !._dirty = TRUE] ELSE cards[id]]
            /\ UNCHANGED <<card, before, quality, selected, dialog>>
    /\ last_again' = {}
    /\ failed_save' = {}
    /\ UNCHANGED <<today, disk, deck_data, due_cards, current_card_index, showing_answer,
                   _is_review_active, current_deck_paths, file_specific_fieldnames,
                   files_needing_full_save,
                   closed, write_fault, session_rating, owed, synced, available_decks,
                   file_exists, file_header>>

\* open_stats_window, lines 1187-1198 (the button is enabled while a deck is
\* loaded, lines 972 and 1033): the box Statistics when deck_data is empty
\* (line 1189), nothing but the focus when the window is open (line 1190);
\* otherwise the window is made, calculate_deck_statistics is given
\* deck_data itself and the window shows what it returns.  Neither the
\* function (lines 417-482, which only reads its argument with card.get)
\* nor the handler assigns to a card or to a field of the session.
open_stats_window ==
    /\ ~closed /\ dialog = NoDialog
    /\ current_deck_paths # <<>>
    /\ Step
    /\ IF deck_data = <<>>
       THEN /\ dialog' = NoDeckData
            /\ UNCHANGED <<fnVars, stats_window>>
       ELSE IF stats_window
       THEN UNCHANGED <<fnVars, stats_window, dialog>>
       ELSE /\ stats_window' = TRUE
            /\ coll' = DeckCards(cards, deck_data)
            /\ forecast_days' = STATS_FORECAST_DAYS
            /\ stats' = calculate_deck_statistics(DeckCards(cards, deck_data),
                                                  STATS_FORECAST_DAYS, today)
            /\ calls' = calls + 1
            /\ at' = today
            /\ UNCHANGED <<card, before, quality, selected, dialog>>
    /\ last_again' = {}
    /\ failed_save' = {}
    /\ UNCHANGED <<today, disk, cards, deck_data, due_cards, current_card_index,
                   showing_answer, _is_review_active, current_deck_paths,
                   file_specific_fieldnames,
                   files_needing_full_save, closed, write_fault, session_rating, owed,
                   synced, available_decks, file_exists, file_header>>

\* open_stats_window, line 1189: the box Statistics is closed and the
\* handler returns
statistics_closed ==
    /\ dialog = NoDeckData
    /\ dialog' = NoDialog
    /\ last_again' = {}
    /\ failed_save' = {}
    /\ UNCHANGED <<today, fnVars, disk, cards, deck_data, due_cards, current_card_index,
                   showing_answer, _is_review_active, current_deck_paths,
                   file_specific_fieldnames,
                   files_needing_full_save, closed, write_fault, steps, session_rating,
                   owed, synced, available_decks, file_exists, file_header,
                   stats_window>>

\* _on_stats_close, lines 1250-1263 (the close button of the statistics
\* window): the window is destroyed and stats_window is None again
_on_stats_close ==
    /\ ~closed /\ dialog = NoDialog
    /\ stats_window
    /\ Step
    /\ stats_window' = FALSE
    /\ last_again' = {}
    /\ failed_save' = {}
    /\ UNCHANGED <<today, fnVars, disk, cards, deck_data, due_cards, current_card_index,
                   showing_answer, _is_review_active, current_deck_paths,
                   file_specific_fieldnames,
                   files_needing_full_save, closed, write_fault, session_rating, owed,
                   synced, dialog, available_decks, file_exists, file_header>>

-----------------------------------------------------------------------------
(* Card management: the Add Card and Edit Card windows, the deletion in    *)
(* the Manage Cards window, and closing the main window.  Each handler     *)
(* ends with save_all_dirty_cards.                                         *)

\* The heap is keyed by object: the dict of a file card by its line number,
\* the dict that line 1079 builds by the first negative number not in use.
NewObject(heap) ==
    LET free == { k \in 1..(Cardinality(DOMAIN heap) + 1) : (0 - k) \notin DOMAIN heap }
    IN  0 - (CHOOSE k \in free : \A m \in free : k <= m)

\* line 1078, random.randint(100, 999)
RandomDraws == 100..999

\* line 1078: the id new_<timestamp>_<random> of an added card, a negative
\* number here (file cards have line numbers).  The clock of the model is
\* the day: cards added on one day with one draw stand for cards added in
\* one second with one draw, and they have the same id.
NewCardId(now, draw) == 0 - (now * 1000 + draw)

\* the draws that matter when a card is added: one that gives an id no card
\* of the heap has, and each that repeats the id of a card added before
DrawChoices(heap, now) ==
    LET added_now == { k \in DOMAIN heap :
                         heap[k].id < 0 /\ (0 - heap[k].id) \div 1000 = now }
        taken == { (0 - heap[k].id) % 1000 : k \in added_now }
        unused == { r \in RandomDraws : r <= 100 + Cardinality(taken) /\ r \notin taken }
    IN  taken \cup (IF unused = {} THEN {}
                    ELSE {CHOOSE r \in unused : \A q \in unused : r <= q})

\* the dict literal new_card of lines 1079-1084, built on day `day`
\* (datetime.date.today()); it is dirty until a save has written it
NewCard(new_card_id, front_escaped, back_escaped, day) ==
    [ id |-> new_card_id, front |-> front_escaped, back |-> back_escaped,
      next_review_date |-> day, interval_days |-> 0,
      ease_factor |-> DEFAULT_EASE_FACTOR, lapses |-> 0, reviews |-> 0,
      _dirty |-> TRUE ]

\* open_add_card_window.submit_card, lines 1070-1094 (the window opens only
\* when a deck is loaded, line 1046)
submit_card(front_raw, back_raw, draw) ==
    /\ ~closed /\ dialog = NoDialog
    /\ current_deck_paths # <<>>
    /\ front_raw # "" /\ back_raw # ""
    /\ draw \in RandomDraws
    /\ Step
    /\ LET target_deck_path == current_deck_paths[1]
           new_card_id == NewCardId(today, draw)
           new_card == NewCard(new_card_id, HtmlEscape(front_raw), HtmlEscape(back_raw),
                               today)
           object == NewObject(cards)
           heap == [k \in DOMAIN cards \cup {object} |->
                       IF k = object THEN new_card ELSE cards[k]]
           deck == Append(deck_data, object)
       IN  /\ deck_data' = deck
           /\ save_all_dirty_cards(heap, deck,
                                   files_needing_full_save \cup {target_deck_path},
                                   "return")
    /\ last_again' = {}
    /\ UNCHANGED <<today, fnVars, due_cards, current_card_index, showing_answer,
                   _is_review_active, current_deck_paths, file_specific_fieldnames,
                   closed, write_fault, session_rating, owed,
                   available_decks, stats_window>>

\* line 1147: the first card of deck_data that has the id, as the key of its
\* object in the heap
OriginalCard(heap, deck, id) ==
    LET found == { j \in DOMAIN deck : heap[deck[j]].id = id }
    IN  deck[CHOOSE j \in found : \A k \in found : j <= k]

\* Variant: an edited card is scheduled again like a new one.
submit_changes_ResetsSchedule(i, new_front_raw, new_back_raw) ==
    /\ ~closed /\ dialog = NoDialog
    /\ i \in DOMAIN deck_data
    /\ new_front_raw # "" /\ new_back_raw # ""
    /\ Step
    /\ LET card_to_edit == cards[deck_data[i]]
           id == OriginalCard(cards, deck_data, card_to_edit.id)
           new_front_escaped == HtmlEscape(new_front_raw)
           new_back_escaped == HtmlEscape(new_back_raw)
       IN  IF cards[id].front # new_front_escaped \/ cards[id].back # new_back_escaped
           THEN save_all_dirty_cards([cards EXCEPT ![id].front = new_front_escaped,
                                                   ![id].back = new_back_escaped,
                                                   ![id].interval_days = 0,
                                                   ![id].reviews = 0,
                                                   ![id].next_review_date = today,
                                                   ![id]._dirty = TRUE],
                                     deck_data, files_needing_full_save, "return")
           ELSE /\ failed_save' = {}
                /\ UNCHANGED <<disk, cards, files_needing_full_save, synced, dialog,
                               file_exists, file_header>>
    /\ last_again' = {}
    /\ UNCHANGED <<today, fnVars, deck_data, due_cards, current_card_index, showing_answer,
                   _is_review_active, current_deck_paths, file_specific_fieldnames,
                   closed, write_fault, session_rating, owed,
                   available_decks, stats_window>>

\* open_edit_card_window.submit_changes, lines 1138-1159, in the window
\* opened for the card at position i of deck_data (card_to_edit): the card
\* changed is the first of deck_data with the id of card_to_edit
submit_changes(i, new_front_raw, new_back_raw) ==
    /\ ~closed /\ dialog = NoDialog
    /\ i \in DOMAIN deck_data
    /\ new_front_raw # "" /\ new_back_raw # ""
    /\ Step
    /\ LET card_to_edit == cards[deck_data[i]]
           id == OriginalCard(cards, deck_data, card_to_edit.id)
           new_front_escaped == HtmlEscape(new_front_raw)
           new_back_escaped == HtmlEscape(new_back_raw)
       IN  IF cards[id].front # new_front_escaped \/ cards[id].back # new_back_escaped
           THEN save_all_dirty_cards([cards EXCEPT ![id].front = new_front_escaped,
                                                   ![id].back = new_back_escaped,
                                                   ![id]._dirty = TRUE],
                                     deck_data, files_needing_full_save, "return")
           ELSE /\ failed_save' = {}
                /\ UNCHANGED <<disk, cards, files_needing_full_save, synced, dialog,
                               file_exists, file_header>>
    /\ last_again' = {}
    /\ UNCHANGED <<today, fnVars, deck_data, due_cards, current_card_index, showing_answer,
                   _is_review_active, current_deck_paths, file_specific_fieldnames,
                   closed, write_fault, session_rating, owed,
                   available_decks, stats_window>>

\* ManageCardsWindow._delete_cards, lines 1541-1571, for the rows selected
\* in the list (their iids are card ids, line 1483) and the answer Yes to
\* Confirm Deletion (with No the handler changes nothing): every card of
\* deck_data that has one of the ids goes, line 1557
_delete_cards(selected_iids) ==
    /\ ~closed /\ dialog = NoDialog
    /\ selected_iids # {}
    /\ selected_iids \subseteq { cards[deck_data[i]].id : i \in DOMAIN deck_data }
    /\ Step
    /\ LET selected_cards == { OriginalCard(cards, deck_data, iid) : iid \in selected_iids }
           ids_to_delete == { cards[k].id : k \in selected_cards }
           Stays(k) == cards[k].id \notin ids_to_delete
           deck == SelectSeq(deck_data, Stays)
       IN  /\ deck_data' = deck
           /\ save_all_dirty_cards(Referenced(cards, deck, due_cards), deck,
                                   files_needing_full_save \cup {DeckFile}, "return")
    /\ last_again' = {}
    /\ UNCHANGED <<today, fnVars, due_cards, current_card_index, showing_answer,
                   _is_review_active, current_deck_paths, file_specific_fieldnames,
                   closed, write_fault, session_rating, owed,
                   available_decks, stats_window>>

\* Variant: the window is destroyed without the save of line 1305.
on_close_WithoutSave ==
    /\ ~closed /\ dialog = NoDialog
    /\ Step
    /\ closed' = TRUE
    /\ stats_window' = FALSE
    /\ last_again' = {}
    /\ failed_save' = {}
    /\ UNCHANGED <<today, fnVars, disk, cards, deck_data, due_cards, current_card_index,
                   showing_answer, _is_review_active, current_deck_paths,
                   file_specific_fieldnames,
                   files_needing_full_save, write_fault, session_rating, owed, synced,
                   dialog, available_decks, file_exists, file_header>>

\* on_close, lines 1303-1334: the save, which may end in the box Save Error,
\* then the open windows are closed (_on_stats_close for the statistics
\* window, line 1327) and the main window is destroyed (line 1334)
on_close ==
    /\ ~closed /\ dialog = NoDialog
    /\ Step
    /\ save_all_dirty_cards(cards, deck_data, files_needing_full_save, "destroy")
    /\ closed' = ~SaveErrorShown(cards, deck_data, files_needing_full_save)
    /\ stats_window' = (stats_window /\ SaveErrorShown(cards, deck_data,
                                                       files_needing_full_save))
    /\ last_again' = {}
    /\ UNCHANGED <<today, fnVars, deck_data, due_cards, current_card_index, showing_answer,
                   _is_review_active, current_deck_paths, file_specific_fieldnames,
                   write_fault, session_rating, owed,
                   available_decks>>

-----------------------------------------------------------------------------
(* The application state right after FlashcardApp.__init__, lines 513-521, *)
(* with the deck file in the decks folder (populate_deck_listbox, line     *)
(* 555, has listed it).                                                    *)

AppConstructed ==
    /\ cards = <<>>
    /\ deck_data = <<>>
    /\ due_cards = <<>>
    /\ current_card_index = -1
    /\ showing_answer = FALSE
    /\ _is_review_active = FALSE
    /\ current_deck_paths = <<>>
    /\ files_needing_full_save = {}
    /\ closed = FALSE
    /\ write_fault = NoFault
    /\ failed_save = {}
    /\ last_again = {}
    /\ session_rating = <<>>
    /\ owed = <<>>
    /\ synced = <<>>
    /\ dialog = NoDialog
    /\ available_decks = <<DeckFile>>
    /\ file_exists = TRUE
    /\ file_specific_fieldnames = <<>>
    /\ stats_window = FALSE

-----------------------------------------------------------------------------
(* SchedSpec: update_card_schedule called directly, any number of times,   *)
(* on one card dict, with any integer quality.                             *)

Qualities == 0..5       \* 1..4 are the ratings; 0 and 5 stand for any other int

InputIntervals == {-100, 0, 100, 152, 1000, 2500, 10000}
InputEases == {1000, 1300, 1400, 2000, 2200, 2500}
InputReviews == {0, 1, 2}
InputLapses == {0, 1}
InputDates == {NoDate, Day0 - 1, Day0 + 1, Day0 + 3}

InputCards ==
    [ id : {1}, front : {"f"}, back : {"b"},
      next_review_date : InputDates,
      interval_days : InputIntervals,
      ease_factor : InputEases,
      lapses : InputLapses,
      reviews : InputReviews,
      _dirty : BOOLEAN ]

SchedInit ==
    /\ today = Day0
    /\ card \in InputCards
    /\ before = card
    /\ quality = 0
    /\ calls = 0
    /\ at = Day0
    /\ coll = <<>>
    /\ selected = <<>>
    /\ forecast_days = 0
    /\ stats = EmptyStats
    /\ disk = <<>>
    /\ file_header = base_fieldnames
    /\ AppConstructed
    /\ steps = 0

Advance(q) ==
    /\ calls < MaxCalls
    /\ card' = update_card_schedule(card, q, today)
    /\ before' = card
    /\ quality' = q
    /\ calls' = calls + 1
    /\ at' = today
    /\ UNCHANGED <<today, coll, selected, forecast_days, stats, appVars>>

\* the wall-clock date moves on between two calls
Midnight ==
    /\ today < Day0 + MaxDays
    /\ today' = today + 1
    /\ UNCHANGED <<fnVars, appVars>>

SchedNext ==
    \/ \E q \in Qualities : Advance(q)
    \/ Midnight

SchedSpec == SchedInit /\ [][SchedNext]_vars

-----------------------------------------------------------------------------
(* CollSpec: get_due_cards called directly on any collection.  The cards   *)
(* of a collection are distinct dicts: the card at position i has id i.    *)

CollInputDates == {NoDate, Day0 - 1, Day0, Day0 + 1, Day0 + 2}

CollInputCards(i) ==
    [ id : {i}, front : {"f"}, back : {"b"},
      next_review_date : CollInputDates,
      interval_days : {100},
      ease_factor : {DEFAULT_EASE_FACTOR},
      lapses : {0},
      reviews : {1},
      _dirty : {FALSE} ]

Collections ==
    UNION { { s \in [1..n -> UNION { CollInputCards(i) : i \in 1..n }] :
                \A i \in 1..n : s[i].id = i } : n \in 0..MaxDeck }

\* The value of card and before while update_card_schedule has not been called,
\* and in the specifications that never call it on a card of their own.
UnusedCard ==
    [ id |-> 1, front |-> "f", back |-> "b", next_review_date |-> Day0,
      interval_days |-> 0, ease_factor |-> DEFAULT_EASE_FACTOR,
      lapses |-> 0, reviews |-> 0, _dirty |-> FALSE ]

CollInit ==
    /\ today = Day0
    /\ coll \in Collections
    /\ selected = <<>>
    /\ forecast_days = 0
    /\ stats = EmptyStats
    /\ calls = 0
    /\ at = Day0
    /\ card = UnusedCard
    /\ before = UnusedCard
    /\ quality = 0
    /\ disk = <<>>
    /\ file_header = base_fieldnames
    /\ AppConstructed
    /\ steps = 0

SelectDue ==
    /\ calls < MaxCalls
    /\ selected' = get_due_cards(coll, today)
    /\ calls' = calls + 1
    /\ at' = today
    /\ UNCHANGED <<today, coll, card, before, quality, forecast_days, stats, appVars>>

CollNext ==
    \/ SelectDue
    \/ Midnight

CollSpec == CollInit /\ [][CollNext]_vars

-----------------------------------------------------------------------------
(* StatsSpec: calculate_deck_statistics and get_due_cards called directly  *)
(* on the same collection, with any horizon from 0 to MaxForecast.  The    *)
(* cards are drawn from three families: dates around today and the ends of *)
(* the horizon and of the 7-day window, with and without reviews;          *)
(* intervals on both sides of the bin and maturity limits; ease factors on *)
(* both sides of the band limits.                                          *)

StatCard(date, interval, ease, reviews, lapses) ==
    [ id |-> 0, front |-> "f", back |-> "b", next_review_date |-> date,
      interval_days |-> interval, ease_factor |-> ease,
      lapses |-> lapses, reviews |-> reviews, _dirty |-> FALSE ]

StatDateCards ==
    { StatCard(d, 100, DEFAULT_EASE_FACTOR, r, 0) :
        d \in {NoDate, Day0}, r \in {0, 2} }
    \cup { StatCard(d, 100, DEFAULT_EASE_FACTOR, 2, 1) :
             d \in {Day0 - 1, Day0 + 1, Day0 + 2, Day0 + 3, Day0 + 7, Day0 + 8} }

StatIntervalCards ==
    { StatCard(Day0 + 4, x, DEFAULT_EASE_FACTOR, 1, 0) :
        x \in {-100, 0, 101, 2100, 9000, 36501} }
    \cup { StatCard(Day0 + 4, 2500, DEFAULT_EASE_FACTOR, 0, 0) }

StatEaseCards ==
    { StatCard(Day0 + 4, 1000, e, 3, 2) : e \in {-500, 1299, 1300, 3000} }

StatCards == StatDateCards \cup StatIntervalCards \cup StatEaseCards

\* the card at position i has id i
StatCollections ==
    UNION { { [i \in 1..n |-> [s[i] EXCEPT !.id = i]] : s \in [1..n -> StatCards] } :
            n \in 0..MaxStatCards }

StatsInit ==
    /\ today = Day0
    /\ coll \in StatCollections
    /\ selected = <<>>
    /\ forecast_days = 0
    /\ stats = EmptyStats
    /\ calls = 0
    /\ at = Day0
    /\ card = UnusedCard
    /\ before = UnusedCard
    /\ quality = 0
    /\ disk = <<>>
    /\ file_header = base_fieldnames
    /\ AppConstructed
    /\ steps = 0

\* both functions are called on the collection, the statistics with horizon n
Statistics(n) ==
    /\ forecast_days' = n
    /\ stats' = calculate_deck_statistics(coll, n, today)
    /\ selected' = get_due_cards(coll, today)
    /\ calls' = 1
    /\ at' = today
    /\ UNCHANGED <<today, coll, card, before, quality, appVars>>

StatsNext == \E n \in 0..MaxForecast : Statistics(n)

StatsSpec == StatsInit /\ [][StatsNext]_vars

-----------------------------------------------------------------------------
(* Spec: the application.  It starts with a deck file of up to MaxRows     *)
(* rows; the user loads the deck, reveals answers and rates cards, and     *)
(* days pass.                                                              *)

\* a never-reviewed card as a user writes it: no date, no scheduling columns
RowNew ==
    [ front |-> "f", back |-> "b", next_review_date |-> NoDate,
      interval_days |-> {}, ease_factor |-> {}, lapses |-> {}, reviews |-> {} ]

\* an overdue graduated card whose stored ease is below the floor
RowOverdue ==
    [ front |-> "f", back |-> "b", next_review_date |-> Day0 - 1,
      interval_days |-> {2500}, ease_factor |-> {1000}, lapses |-> {1}, reviews |-> {2} ]

\* a card due on the first day, reviewed once
RowDue ==
    [ front |-> "f", back |-> "b", next_review_date |-> Day0,
      interval_days |-> {100}, ease_factor |-> {2500}, lapses |-> {0}, reviews |-> {1} ]

\* a card that becomes due on the second day, with a fractional interval
RowFuture ==
    [ front |-> "f", back |-> "b", next_review_date |-> Day0 + 1,
      interval_days |-> {152}, ease_factor |-> {1300}, lapses |-> {0}, reviews |-> {3} ]

\* the deck file at start: the first n of these rows
FileRows == <<RowNew, RowOverdue, RowDue, RowFuture>>

InputRow(k) == FileRows[((k - 1) % Len(FileRows)) + 1]

InputDecks == { [k \in 1..n |-> InputRow(k)] : n \in 0..MaxRows }

Init ==
    /\ today = Day0
    /\ disk \in InputDecks
    /\ file_header = base_fieldnames
    /\ AppConstructed
    /\ steps = MaxSteps
    /\ card = UnusedCard
    /\ before = UnusedCard
    /\ quality = 0
    /\ calls = 0
    /\ at = Day0
    /\ coll = <<>>
    /\ selected = <<>>
    /\ forecast_days = 0
    /\ stats = EmptyStats

Next ==
    \/ load_selected_decks
    \/ empty_deck_closed
    \/ no_cards_closed
    \/ show_answer
    \/ \E q \in 1..4 : rate_card(q)
    \/ AppMidnight

Spec == Init /\ [][Next]_vars

-----------------------------------------------------------------------------
(* AppSpec: the whole application.  Besides the events of the review       *)
(* session the user adds, edits and deletes cards and closes the window.   *)

\* what a user types into the Front and Back boxes
InputFronts == {"", "<g>"}
InputBacks == {"b"}

AppInit ==
    /\ today = Day0
    /\ disk \in InputDecks
    /\ file_header = base_fieldnames
    /\ AppConstructed
    /\ steps = MaxEvents
    /\ card = UnusedCard
    /\ before = UnusedCard
    /\ quality = 0
    /\ calls = 0
    /\ at = Day0
    /\ coll = <<>>
    /\ selected = <<>>
    /\ forecast_days = 0
    /\ stats = EmptyStats

AppNext ==
    \/ load_selected_decks
    \/ empty_deck_closed
    \/ no_cards_closed
    \/ populate_deck_listbox
    \/ show_answer
    \/ \E q \in 1..4 : rate_card(q)
    \/ AppMidnight
    \/ \E front_raw \in InputFronts, back_raw \in InputBacks,
          draw \in DrawChoices(cards, today) :
           submit_card(front_raw, back_raw, draw)
    \/ \E i \in DOMAIN deck_data, front_raw \in InputFronts, back_raw \in InputBacks :
           submit_changes(i, front_raw, back_raw)
    \/ \E selected_iids \in SUBSET { cards[deck_data[i]].id : i \in DOMAIN deck_data } :
           _delete_cards(selected_iids)
    \/ on_close

AppSpec == AppInit /\ [][AppNext]_vars

-----------------------------------------------------------------------------
(* WindowSpec: the statistics window.  The user loads the deck, reviews,   *)
(* deletes cards, opens and closes the statistics window at any point and  *)
(* closes the main window.                                                 *)

WindowDecks == { [k \in 1..n |-> InputRow(k)] : n \in 1..MaxWindowRows }

WindowInit ==
    /\ today = Day0
    /\ disk \in WindowDecks
    /\ file_header = base_fieldnames
    /\ AppConstructed
    /\ steps = MaxWindowSteps
    /\ card = UnusedCard
    /\ before = UnusedCard
    /\ quality = 0
    /\ calls = 0
    /\ at = Day0
    /\ coll = <<>>
    /\ selected = <<>>
    /\ forecast_days = 0
    /\ stats = EmptyStats

WindowNext ==
    \/ load_selected_decks
    \/ empty_deck_closed
    \/ no_cards_closed
    \/ show_answer
    \/ \E q \in 1..4 : rate_card(q)
    \/ \E selected_iids \in SUBSET { cards[deck_data[i]].id : i \in DOMAIN deck_data } :
           _delete_cards(selected_iids)
    \/ open_stats_window
    \/ statistics_closed
    \/ _on_stats_close
    \/ on_close

WindowSpec == WindowInit /\ [][WindowNext]_vars

-----------------------------------------------------------------------------
(* LoadSpec: what load_deck makes of a row of any kind.  The deck file     *)
(* holds one row, with or without a date, whose interval and ease columns  *)
(* are blank, below the floors or above them, or a row with a column that  *)
(* is no finite number, or a line with fewer fields than the header, alone *)
(* or above a full row; the user loads the deck, reviews the card and adds *)
(* cards.                                                                  *)

LoadRows ==
    [ front : {"f"}, back : {"b"},
      next_review_date : {NoDate, Day0 - 1},
      interval_days : {{}, {-100}, {40}, {152}, {2500}},
      ease_factor : {{}, {1000}, {2200}},
      lapses : {{}},
      reviews : {{}, {2}} ]

\* lines with fewer fields than the header: "f,b", "f,b,<date>" and
\* "f,b,<date>,25.0"
ShortRows ==
    { [front |-> "f", back |-> "b"],
      [front |-> "f", back |-> "b", next_review_date |-> Day0 - 1],
      [front |-> "f", back |-> "b", next_review_date |-> Day0 - 1,
       interval_days |-> {2500}] }

\* rows whose numeric columns hold texts that float() reads as no finite
\* number: "inf" or "1e999", "-inf", "nan"
NonFiniteRows ==
    { [RowOverdue EXCEPT !.interval_days = {Infinity}],
      [RowOverdue EXCEPT !.interval_days = {0 - Infinity}],
      [RowOverdue EXCEPT !.interval_days = {NaN}],
      [RowOverdue EXCEPT !.ease_factor = {Infinity}],
      [RowOverdue EXCEPT !.ease_factor = {0 - Infinity}],
      [RowOverdue EXCEPT !.ease_factor = {NaN}],
      [RowOverdue EXCEPT !.lapses = {Infinity}],
      [RowOverdue EXCEPT !.lapses = {NaN}],
      [RowOverdue EXCEPT !.reviews = {0 - Infinity}],
      [RowOverdue EXCEPT !.reviews = {NaN}],
      [RowOverdue EXCEPT !.interval_days = {Infinity}, !.reviews = {}] }

LoadDecks ==
    { <<row>> : row \in LoadRows \cup ShortRows \cup NonFiniteRows }
        \cup { <<short, RowOverdue>> : short \in ShortRows }

LoadInit ==
    /\ today = Day0
    /\ disk \in LoadDecks
    /\ file_header = base_fieldnames
    /\ AppConstructed
    /\ steps = MaxLoadSteps
    /\ card = UnusedCard
    /\ before = UnusedCard
    /\ quality = 0
    /\ calls = 0
    /\ at = Day0
    /\ coll = <<>>
    /\ selected = <<>>
    /\ forecast_days = 0
    /\ stats = EmptyStats

LoadNext ==
    \/ load_selected_decks
    \/ empty_deck_closed
    \/ no_cards_closed
    \/ show_answer
    \/ \E q \in 1..4 : rate_card(q)
    \/ \E front_raw \in InputFronts, back_raw \in InputBacks,
          draw \in DrawChoices(cards, today) :
           submit_card(front_raw, back_raw, draw)

LoadSpec == LoadInit /\ [][LoadNext]_vars

-----------------------------------------------------------------------------
(* LiveSpec: one review session followed to its end.  The deck is loaded   *)
(* once, and the user reveals and rates cards within a day.  A card with   *)
(* MaxLapses lapses is not rated Again any more, which keeps the counters  *)
(* of the cards bounded.  The user is taken to go on: an answer that can   *)
(* be revealed is revealed, a card that can be rated is rated, and a       *)
(* rating other than Again is given again and again while cards are shown. *)

\* no session of LiveSpec has more events than this
LiveBudget == 1 + 2 * MaxRows * (MaxLapses + 1)

LiveInit ==
    /\ today = Day0
    /\ disk \in InputDecks
    /\ file_header = base_fieldnames
    /\ AppConstructed
    /\ steps = LiveBudget
    /\ card = UnusedCard
    /\ before = UnusedCard
    /\ quality = 0
    /\ calls = 0
    /\ at = Day0
    /\ coll = <<>>
    /\ selected = <<>>
    /\ forecast_days = 0
    /\ stats = EmptyStats

\* the first load of the deck
LiveLoad == deck_data = <<>> /\ load_selected_decks

LiveRate(q) ==
    /\ (q = 1 /\ ValidIndex(current_card_index, due_cards)) =>
           cards[due_cards[current_card_index + 1]].lapses < MaxLapses
    /\ rate_card(q)

LiveNext ==
    \/ LiveLoad
    \/ empty_deck_closed
    \/ no_cards_closed
    \/ show_answer
    \/ \E q \in 1..4 : LiveRate(q)

LiveSpec ==
    /\ LiveInit /\ [][LiveNext]_vars
    /\ WF_vars(show_answer)
    /\ WF_vars(\E q \in 1..4 : LiveRate(q))
    /\ SF_vars(\E q \in 2..4 : LiveRate(q))

-----------------------------------------------------------------------------
(* FailSpec: the application on a file system that can fail.  The deck     *)
(* file becomes unwritable (the open is refused, or the bytes beyond a     *)
(* limit are, at every limit below the length of the text) and writable    *)
(* again; the user loads the deck, reviews, edits cards and closes the     *)
(* window.  The file starts with the columns in the order the program      *)
(* writes, in another order, or without the scheduling columns.            *)

\* the file system starts to fail
WriteFault(fault) ==
    /\ ~closed
    /\ write_fault = NoFault
    /\ fault \in WriteFaults
    /\ Step
    /\ write_fault' = fault
    /\ last_again' = {}
    /\ failed_save' = {}
    /\ UNCHANGED <<today, fnVars, disk, cards, deck_data, due_cards, current_card_index,
                   showing_answer, _is_review_active, current_deck_paths,
                   file_specific_fieldnames,
                   files_needing_full_save, closed, session_rating, owed, synced,
                   uiVars>>

\* the file system works again
RepairDisk ==
    /\ ~closed
    /\ write_fault # NoFault
    /\ Step
    /\ write_fault' = NoFault
    /\ last_again' = {}
    /\ UNCHANGED <<today, fnVars, disk, cards, deck_data, due_cards, current_card_index,
                   showing_answer, _is_review_active, current_deck_paths,
                   file_specific_fieldnames,
                   files_needing_full_save, closed, failed_save, session_rating, owed,
                   synced, uiVars>>

\* the first line of the deck file at start: the columns as save_deck
\* writes them to a new file, or as a spreadsheet has put them in another
\* order
InputHeaders ==
    { base_fieldnames,
      <<"back", "front", "reviews", "lapses", "ease_factor", "interval_days",
        "next_review_date">> }

\* the rows of a file with this first line: each row has the columns that
\* the first line names
RowsUnder(header, rows) ==
    [i \in DOMAIN rows |-> [name \in Range(header) |-> rows[i][name]]]

FailDecks == { [k \in 1..n |-> InputRow(k)] : n \in 0..MaxFailRows }

FailInit ==
    /\ today = Day0
    \* core_fields: a file from an earlier version of the program, without
    \* the columns of srs_fields (lines 150, 263)
    /\ file_header \in InputHeaders \cup {core_fields}
    /\ disk \in { RowsUnder(file_header, rows) : rows \in FailDecks }
    /\ AppConstructed
    /\ steps = MaxFailSteps
    /\ card = UnusedCard
    /\ before = UnusedCard
    /\ quality = 0
    /\ calls = 0
    /\ at = Day0
    /\ coll = <<>>
    /\ selected = <<>>
    /\ forecast_days = 0
    /\ stats = EmptyStats

FailNext ==
    \/ load_selected_decks
    \/ save_error_closed
    \/ load_error_closed
    \/ empty_deck_closed
    \/ no_cards_closed
    \/ show_answer
    \/ \E q \in 1..4 : rate_card(q)
    \/ \E i \in DOMAIN deck_data, front_raw \in InputFronts, back_raw \in InputBacks :
           submit_changes(i, front_raw, back_raw)
    \/ on_close
    \/ \E fault \in WriteFaults : WriteFault(fault)
    \/ RepairDisk

FailSpec == FailInit /\ [][FailNext]_vars

-----------------------------------------------------------------------------
(* FolderSpec: the decks folder changes under the application.  The user   *)
(* loads the deck and reviews, removes the deck file from the folder,      *)
(* presses Reload List and closes the window, while the file system works  *)
(* or refuses to write.  The file starts with the columns in the order the *)
(* program writes or in another order.                                     *)

FolderDecks == { [k \in 1..n |-> InputRow(k)] : n \in 1..MaxFolderRows }

FolderInit ==
    /\ today = Day0
    /\ file_header \in InputHeaders
    /\ disk \in { RowsUnder(file_header, rows) : rows \in FolderDecks }
    /\ AppConstructed
    /\ steps = MaxFolderSteps
    /\ card = UnusedCard
    /\ before = UnusedCard
    /\ quality = 0
    /\ calls = 0
    /\ at = Day0
    /\ coll = <<>>
    /\ selected = <<>>
    /\ forecast_days = 0
    /\ stats = EmptyStats

FolderNext ==
    \/ load_selected_decks
    \/ save_error_closed
    \/ load_error_closed
    \/ empty_deck_closed
    \/ no_cards_closed
    \/ show_answer
    \/ \E q \in 1..4 : rate_card(q)
    \/ RemoveFile
    \/ populate_deck_listbox
    \/ on_close
    \/ \E fault \in WriteFaults : WriteFault(fault)

FolderSpec == FolderInit /\ [][FolderNext]_vars

-----------------------------------------------------------------------------
(* Properties of update_card_schedule, checked under SchedSpec.  In a      *)
(* state with calls > 0, `before` is the card before the last call,        *)
(* `quality` its argument and `card` the result.                           *)

Called == calls > 0
ValidQuality == quality \in 1..4
SchedulingFields(c) ==
    <<c.interval_days, c.ease_factor, c.lapses, c.reviews, c.next_review_date, c._dirty>>

\* C1: a call with a quality outside {1,2,3,4} leaves interval_days, ease_factor,
\* lapses, reviews, next_review_date and _dirty exactly as they were.
C1_InvalidQualityIsNoOp ==
    (Called /\ ~ValidQuality) => SchedulingFields(card) = SchedulingFields(before)

\* C2: a card rated Good with old interval < 1.0 or old reviews <= 1 is still
\* learning and gets the fixed graduation interval 1.0; in particular the
\* card with interval 1.0, ease 2.5 and one review ends with interval 1.0.
C2_LearningIfReviewsAtMostOne ==
    (Called /\ quality = 3
        /\ (before.interval_days < MINIMUM_INTERVAL_DAYS \/ before.reviews <= 1))
    => card.interval_days = INITIAL_INTERVAL_DAYS

\* C3: after every call with a quality in {1,2,3,4}, whatever the starting card
\* (also one with ease below the floor), ease_factor >= MINIMUM_EASE_FACTOR.
C3_EaseFloor ==
    (Called /\ ValidQuality) => card.ease_factor >= MINIMUM_EASE_FACTOR

C3_Witness ==
    /\ Called /\ quality = 2
    /\ before.ease_factor < MINIMUM_EASE_FACTOR
    /\ card.ease_factor = MINIMUM_EASE_FACTOR

\* C4: every call with a quality in {1,2,3,4} adds exactly 1 to reviews; lapses
\* grows by exactly 1 when quality = 1 and is unchanged for 2, 3 and 4.
C4_CountersStep ==
    (Called /\ ValidQuality) =>
        /\ card.reviews = before.reviews + 1
        /\ card.lapses = before.lapses + (IF quality = 1 THEN 1 ELSE 0)

C4_Witness ==
    /\ calls = 2 /\ quality = 2
    /\ card.reviews = before.reviews + 1
    /\ before.lapses = 2 /\ card.lapses = 2

\* C5: rating Again (quality 1) yields interval_days = 1.0 and next_review_date =
\* today + 1 day, whatever the previous interval, ease, review count or due date.
C5_LapseResets ==
    (Called /\ quality = 1)
    => (card.interval_days = 100 /\ card.next_review_date = at + 1)

C5_Witness ==
    /\ Called /\ quality = 1
    /\ before.interval_days = 2500 /\ before.next_review_date = Day0 + 3
    /\ card.interval_days = 100 /\ card.next_review_date = at + 1
    /\ today = Day0 + 1 /\ at = today

\* C10: a graduated card (interval >= 1.0, at least 2 prior reviews) rated Good
\* gets interval max(ceil(old_interval * current_ease), old_interval + 1), keeps
\* its ease (raised to the floor), and its interval strictly grows.
C10_GoodGraduated ==
    (Called /\ quality = 3
        /\ before.interval_days >= MINIMUM_INTERVAL_DAYS /\ before.reviews >= 2)
    => LET current_ease == Max(MINIMUM_EASE_FACTOR, before.ease_factor)
       IN  /\ card.interval_days =
                 Max(IntervalScale * CeilIntervalTimesEase(before.interval_days, current_ease),
                     before.interval_days + IntervalScale)
           /\ card.ease_factor = current_ease
           /\ card.interval_days > before.interval_days

\* the floor old_interval + 1 decides: ceil(1.52 * 1.3) = 2 < 2.52
C10_Witness ==
    /\ Called /\ quality = 3
    /\ before.interval_days = 152 /\ before.reviews = 2 /\ before.ease_factor = 1000
    /\ card.interval_days = 252 /\ card.ease_factor = MINIMUM_EASE_FACTOR

\* C11: a graduated card (interval >= 1.0, at least 2 prior reviews) rated Hard
\* gets interval exactly ceil(old_interval * 1.2), the least whole number of days
\* not below old_interval * 1.2, with no floor at old_interval + 1, and ease
\* max(1.3, current_ease - 0.15); interval 100, ease 2.0 gives interval 120,
\* ease 1.85.
C11_HardGraduated ==
    (Called /\ quality = 2
        /\ before.interval_days >= MINIMUM_INTERVAL_DAYS /\ before.reviews >= 2)
    => LET current_ease == Max(MINIMUM_EASE_FACTOR, before.ease_factor)
       IN  /\ card.interval_days % IntervalScale = 0
           /\ card.interval_days * 10 >= before.interval_days * 12
           /\ (card.interval_days - IntervalScale) * 10 < before.interval_days * 12
           /\ card.ease_factor = Max(MINIMUM_EASE_FACTOR, current_ease - 150)
           /\ (before.interval_days = 10000 /\ before.ease_factor = 2000)
                  => (card.interval_days = 12000 /\ card.ease_factor = 1850)

\* ceil(1.52 * 1.2) = 2 days, below the floor 2.52 that Good and Easy would get
C11_Witness ==
    /\ Called /\ quality = 2
    /\ before.interval_days = 152 /\ before.reviews = 2 /\ before.ease_factor = 2000
    /\ card.interval_days = 200 /\ card.ease_factor = 1850
    /\ card.interval_days < before.interval_days + IntervalScale

\* C12: a graduated card (interval >= 1.0, at least 2 prior reviews) rated Easy
\* gets interval max(ceil(ceil(old_interval * current_ease) * 1.3),
\* old_interval + 1) and ease current_ease + 0.15.  The inner ceil is math.ceil
\* of the double product (CeilIntervalTimesEase); the outer one is the least
\* whole number of days not below 1.3 times the inner one.
C12_EasyGraduated ==
    (Called /\ quality = 4
        /\ before.interval_days >= MINIMUM_INTERVAL_DAYS /\ before.reviews >= 2)
    => LET current_ease == Max(MINIMUM_EASE_FACTOR, before.ease_factor)
           inner == CeilIntervalTimesEase(before.interval_days, current_ease)
           outer == CHOOSE n \in 0..(2 * inner) :
                        n * 10 >= inner * 13 /\ (n - 1) * 10 < inner * 13
       IN  /\ card.interval_days =
                 Max(IntervalScale * outer, before.interval_days + IntervalScale)
           /\ card.ease_factor = current_ease + 150

\* 25 days at ease 2.5: ceil(62.5) = 63, ceil(81.9) = 82 days, ease 2.65
C12_Witness ==
    /\ Called /\ quality = 4
    /\ before.interval_days = 2500 /\ before.ease_factor = 2500 /\ before.reviews = 2
    /\ card.interval_days = 8200 /\ card.ease_factor = 2650

\* C13: a card in the learning phase (interval < 1.0 or at most one prior
\* review, the rule of C2) with a valid ease (>= 1.3) gets a fixed interval
\* that depends on the rating only: Hard 1 day with ease max(1.3, ease - 0.15),
\* Good 1 day with ease unchanged, Easy 4 days with ease + 0.15.
C13_LearningFixedIntervals ==
    (Called /\ quality \in 2..4
        /\ before.ease_factor >= MINIMUM_EASE_FACTOR
        /\ (before.interval_days < MINIMUM_INTERVAL_DAYS \/ before.reviews <= 1))
    => LET ease == before.ease_factor
       IN  /\ quality = 2 => /\ card.interval_days = 100
                             /\ card.ease_factor = Max(MINIMUM_EASE_FACTOR, ease - 150)
           /\ quality = 3 => /\ card.interval_days = 100
                             /\ card.ease_factor = ease
           /\ quality = 4 => /\ card.interval_days = 400
                             /\ card.ease_factor = ease + 150

\* C14: rating a card Again (quality 1) sets ease_factor to
\* max(1.3, max(1.3, old_ease) - 0.20) and adds 1 to lapses; interval 10, ease
\* 2.5 rated Again gives ease 2.3 and one more lapse.
C14_AgainEaseAndLapses ==
    (Called /\ quality = 1)
    => /\ card.ease_factor = Max(1300, Max(1300, before.ease_factor) - 200)
       /\ card.lapses = before.lapses + 1
       /\ (before.interval_days = 1000 /\ before.ease_factor = 2500)
              => card.ease_factor = 2300

C14_Witness ==
    /\ Called /\ quality = 1
    /\ before.interval_days = 1000 /\ before.ease_factor = 2500 /\ before.lapses = 1
    /\ card.ease_factor = 2300 /\ card.lapses = 2 /\ card.interval_days = 100

\* C15: after every call with a quality in {1,2,3,4}, interval_days >=
\* MINIMUM_INTERVAL_DAYS (1.0), for every input card: new, learning or graduated,
\* also one whose interval was 0 or negative.
C15_IntervalAtLeastMinimum ==
    (Called /\ ValidQuality) => card.interval_days >= MINIMUM_INTERVAL_DAYS

\* a never-reviewed card with interval 0 is rated Again
C15_Witness ==
    /\ Called /\ quality = 1
    /\ before.interval_days = 0 /\ before.reviews = 0 /\ before.lapses = 0
    /\ card.interval_days = MINIMUM_INTERVAL_DAYS /\ card.lapses = 1

\* C16: after every call with a quality in {1,2,3,4}, next_review_date is at
\* least the day of the call + 1, and it is the date the same call gives to a
\* card that differs in next_review_date (and lapses, _dirty) only: it depends
\* on today, the old interval, ease, review count and the quality, so reviewing
\* early or late yields the same new date.
C16_DateAheadAndFromToday ==
    (Called /\ ValidQuality) =>
        /\ card.next_review_date >= at + 1
        /\ \A d \in InputDates \cup {at, at + 1}, l \in InputLapses, b \in BOOLEAN :
               update_card_schedule([before EXCEPT !.next_review_date = d,
                                                   !.lapses = l,
                                                   !._dirty = b],
                                    quality, at).next_review_date
                   = card.next_review_date

\* a card due in three days is reviewed early and becomes due tomorrow
C16_Witness ==
    /\ Called /\ quality = 3 /\ at = Day0
    /\ before.next_review_date = Day0 + 3 /\ before.interval_days = 100
    /\ before.reviews = 0
    /\ card.next_review_date = Day0 + 1

\* round(x) of a non-negative value in hundredths, in whole days: the nearest
\* whole number, a tie going to the even one
RoundDays(x) ==
    LET whole == x \div IntervalScale
        part  == x % IntervalScale
    IN  IF 2 * part > IntervalScale THEN whole + 1
        ELSE IF 2 * part < IntervalScale THEN whole
        ELSE IF whole % 2 = 0 THEN whole ELSE whole + 1

\* C17: for every valid rating, next_review_date = today + round(days_to_add),
\* days_to_add rounded to the nearest whole day, also when the floor
\* old_interval + 1 makes days_to_add fractional (days_to_add is the interval
\* the call stores).
C17_DateRoundsDaysToAdd ==
    (Called /\ ValidQuality)
    => card.next_review_date = at + RoundDays(card.interval_days)

\* C18: a call with a quality in {1,2,3,4} on a card that violates the input
\* invariants (negative interval and/or ease below 1.3) completes (the review is
\* counted) and leaves ease_factor >= 1.3, interval_days >= 1.0 and
\* next_review_date >= today + 1.
C18_OutOfInvariantInputClamped ==
    (Called /\ ValidQuality
        /\ (before.interval_days < 0 \/ before.ease_factor < MINIMUM_EASE_FACTOR))
    => /\ card.reviews = before.reviews + 1
       /\ card.ease_factor >= MINIMUM_EASE_FACTOR
       /\ card.interval_days >= MINIMUM_INTERVAL_DAYS
       /\ card.next_review_date >= at + 1

\* interval -1.0 and ease 1.0 with two prior reviews, rated Good
C18_Witness ==
    /\ Called /\ quality = 3
    /\ before.interval_days = -100 /\ before.ease_factor = 1000 /\ before.reviews = 2
    /\ card.interval_days = 100 /\ card.ease_factor = MINIMUM_EASE_FACTOR
    /\ card.next_review_date = at + 1

WrittenFields(c) ==
    <<c.interval_days, c.ease_factor, c.lapses, c.reviews, c.next_review_date>>

\* C19: a call (with any quality) sets _dirty to True if and only if at least one
\* of interval_days, ease_factor, lapses, reviews, next_review_date differs from
\* its value before the call; when none differs the card is left as it was, and
\* a flag that was True is never cleared.
C19_DirtyIffChanged ==
    Called =>
        /\ WrittenFields(card) # WrittenFields(before) => card._dirty
        /\ WrittenFields(card) = WrittenFields(before) => card = before
        /\ before._dirty => card._dirty
        /\ (card._dirty /\ ~before._dirty) => WrittenFields(card) # WrittenFields(before)

\* a clean, never-reviewed card already due tomorrow with interval 1.0 is rated
\* Good: only reviews changes, and the flag is raised
C19_Witness ==
    /\ Called /\ quality = 3 /\ at = Day0
    /\ ~before._dirty /\ card._dirty
    /\ before.reviews = 0 /\ card.reviews = 1
    /\ <<card.interval_days, card.ease_factor, card.lapses, card.next_review_date>>
           = <<before.interval_days, before.ease_factor, before.lapses,
               before.next_review_date>>

-----------------------------------------------------------------------------
(* Properties of get_due_cards, checked under CollSpec.  In a state with   *)
(* calls > 0, `selected` is what the last call returned for `coll` on day  *)
(* `at`.                                                                   *)

DueOn(c, day) == c.next_review_date = NoDate \/ c.next_review_date <= day

\* C9: get_due_cards returns exactly the cards of the collection whose
\* next_review_date is null or <= today: none of them is omitted, none is
\* returned twice, and no card with next_review_date > today is returned.
C9_DueSetExact ==
    Called =>
        /\ \A i \in DOMAIN coll :
               DueOn(coll[i], at) => \E j \in DOMAIN selected : selected[j] = coll[i]
        /\ \A j \in DOMAIN selected :
               /\ \E i \in DOMAIN coll : coll[i] = selected[j]
               /\ ~(selected[j].next_review_date > at)
        /\ Len(selected) = Cardinality({ i \in DOMAIN coll : DueOn(coll[i], at) })

C9_Witness ==
    /\ Called /\ Len(coll) = 3 /\ Len(selected) = 2 /\ at = Day0 + 1
    /\ coll[1].next_review_date = at + 1
    /\ coll[2].next_review_date = NoDate
    /\ coll[3].next_review_date = at
    /\ selected = <<coll[2], coll[3]>>

-----------------------------------------------------------------------------
(* Properties of the review session, checked under Spec.  last_again holds *)
(* the card rated Again by the event that led to the current state;        *)
(* session_rating[c] is the last quality c received since the queue was    *)
(* built (0: none); owed[c] holds the cards that were behind c in the      *)
(* queue when c was last rated Again and have not been on screen since.    *)

Displayed == OnScreen(due_cards, current_card_index)
Remaining == Len(due_cards) - current_card_index

\* C6: when the current card is rated Again while more than one card remains in
\* the queue, the card displayed next is a different card.
C6_AgainNotNextWhileOthersRemain ==
    (last_again # {} /\ Remaining > 1)
    => (Displayed # {} /\ Displayed \cap last_again = {})

\* a card in the middle of a three-card queue was rated Again
C6_Witness ==
    /\ last_again # {} /\ Len(due_cards) = 3 /\ current_card_index = 1
    /\ Displayed # last_again
    /\ due_cards[3] \in last_again

\* C7 as stated: a card rated Again is the next card shown only if the session
\* queue built at load time held just that one card.
C7_AgainNextOnlyInOneCardSession ==
    (last_again # {} /\ Displayed = last_again) => Len(due_cards) = 1

\* C7 amended: a card rated Again is the next card shown only if it was the only
\* card of the session queue still waiting: every other card of the queue has
\* been rated Hard, Good or Easy in this session.
C7_AgainNextOnlyIfLastWaiting ==
    (last_again # {} /\ Displayed = last_again)
    => /\ Remaining = 1
       /\ \A k \in DOMAIN due_cards :
              due_cards[k] \notin last_again => session_rating[due_cards[k]] \in 2..4

\* the last waiting card of a three-card session is rated Again and shown again
C7_Witness ==
    /\ last_again # {} /\ Displayed = last_again
    /\ Len(due_cards) = 3 /\ current_card_index = 2

\* C8: a card rated Again goes to the end of the queue: every card that was
\* still waiting behind it at that moment is displayed at least once before the
\* failed card is displayed again.
C8_OthersShownBeforeFailedCard ==
    \A c \in Displayed : owed[c] = {}

\* the failed card is back on screen after the two cards behind it were shown
\* and rated
C8_Witness ==
    /\ Len(due_cards) = 3 /\ last_again = {}
    /\ \E c \in Displayed :
          /\ session_rating[c] = 1
          /\ owed[c] = {}
          /\ \A k \in DOMAIN due_cards : session_rating[due_cards[k]] # 0

-----------------------------------------------------------------------------
(* Properties of the whole application, checked under AppSpec.  synced[id] *)
(* holds the fields of card id as load_deck last read them from the file   *)
(* or save_deck last wrote them to it.                                     *)

InDeck == { deck_data[i] : i \in DOMAIN deck_data }
Unsaved(id) == id \notin DOMAIN synced \/ Written(cards[id]) # synced[id]

\* C20: in every reachable state (after any sequence of load, rate, add, edit,
\* delete and close events, all saves succeeding) a card of deck_data whose
\* front, back or scheduling fields differ from what was last loaded from or
\* written to the file has _dirty = True, and the next save_all_dirty_cards
\* rewrites the file with that card's current values.
C20_UnsavedCardsAreDirty ==
    \A i \in DOMAIN deck_data :
        Unsaved(deck_data[i]) =>
            /\ cards[deck_data[i]]._dirty
            /\ LET written == DiskAfterSave(disk, cards, deck_data, files_needing_full_save)
               IN  /\ Len(written) = Len(deck_data)
                   /\ written[i] = FormatRow(cards[deck_data[i]])
                   /\ written # disk

\* a card was edited and saved, then a card was rated and waits to be saved
C20_Witness ==
    /\ \E k \in DOMAIN disk : disk[k].front = "<g>"
    /\ \E id \in InDeck : cards[id].front = "&lt;g&gt;" /\ ~Unsaved(id) /\ ~cards[id]._dirty
    /\ \E id \in InDeck :
           /\ Unsaved(id) /\ cards[id]._dirty
           /\ cards[id].reviews = synced[id].reviews + 1

-----------------------------------------------------------------------------
(* Properties of the application on a failing file system, checked under   *)
(* FailSpec.  Right after a handler whose save failed, failed_save holds   *)
(* the card dicts and the list that save was given, and the number of      *)
(* complete rows of that list which the file holds after it.               *)

\* C21: a save that fails (the open is refused, or bytes are refused and
\* the error is raised when the file is closed) leaves interval_days,
\* ease_factor, lapses, reviews and next_review_date of every card as they
\* were, and a dirty card whose row is not in the file after the save still
\* has _dirty = True, so that the next save rewrites the file with that
\* card's values.
C21_FailedSaveKeepsCards ==
    \A f \in failed_save :
        \A i \in DOMAIN f.deck :
            LET id == f.deck[i]
            IN  /\ id \in DOMAIN cards
                /\ WrittenFields(cards[id]) = WrittenFields(f.heap[id])
                /\ (i > f.rows /\ f.heap[id]._dirty) =>
                       /\ cards[id]._dirty
                       /\ i \in DOMAIN deck_data /\ deck_data[i] = id
                       /\ LET written == DiskAfterSave(disk, cards, deck_data,
                                                       files_needing_full_save)
                          IN  /\ Len(written) = Len(deck_data)
                              /\ written[i] = FormatRow(cards[id])

-----------------------------------------------------------------------------
(* Properties of one review session followed to its end, checked under     *)
(* LiveSpec.                                                               *)

\* once a deck was loaded, the session is active exactly while the index is
\* inside the queue, and the index never passes the end of the queue
SessionShape ==
    current_card_index >= 0 =>
        /\ current_card_index <= Len(due_cards)
        /\ _is_review_active <=> current_card_index < Len(due_cards)

SessionEnded == ~_is_review_active /\ current_card_index = Len(due_cards)

\* C22: a review session is over (_is_review_active is False) exactly when
\* current_card_index has reached len(due_cards); and when every card shown
\* is eventually rated and no card is rated Again forever, an active session
\* eventually reaches that end.
C22_SessionEndsAtQueueEnd ==
    /\ []SessionShape
    /\ _is_review_active ~> SessionEnded

\* a session of three cards has ended after one of them was rated Again and
\* came back
C22_Witness ==
    /\ SessionEnded
    /\ Len(due_cards) = 3
    /\ \A k \in DOMAIN due_cards : session_rating[due_cards[k]] \in 2..4
    /\ \E k \in DOMAIN due_cards : cards[due_cards[k]].lapses > synced[due_cards[k]].lapses

-----------------------------------------------------------------------------
(* Properties of calculate_deck_statistics, checked under StatsSpec.  In   *)
(* a state with calls > 0, `stats` is what the last call returned for      *)
(* `coll` with horizon forecast_days on day `at`, and `selected` is what   *)
(* get_due_cards returned for the same collection on that day.             *)

HasDate(c) == c.next_review_date # NoDate
AllDated == \A i \in DOMAIN coll : HasDate(coll[i])
CardsWhere(Test(_)) == Cardinality({ i \in DOMAIN coll : Test(coll[i]) })

RECURSIVE SumOfCounts(_)
\* the sum of the counts of a histogram
SumOfCounts(hist) ==
    IF DOMAIN hist = {} THEN 0
    ELSE LET l == CHOOSE x \in DOMAIN hist : TRUE
         IN  hist[l] + SumOfCounts([x \in DOMAIN hist \ {l} |-> hist[x]])

\* the count a histogram holds for a label (0 when the label has no entry)
CountAt(hist, l) == IF l \in DOMAIN hist THEN hist[l] ELSE 0

\* C23: for every collection, the empty one included, and every horizon
\* n >= 0, due_counts_forecast has exactly n + 1 entries, keyed by the
\* consecutive dates today .. today + n in increasing order, and a day on
\* which no card is due is present with count 0.
C23_ForecastDense ==
    Called =>
        LET forecast == stats.due_counts_forecast
        IN  /\ Len(forecast) = forecast_days + 1
            /\ \A k \in DOMAIN forecast :
                   /\ forecast[k].date = at + k - 1
                   /\ (\A i \in DOMAIN coll :
                           HasDate(coll[i]) /\ coll[i].next_review_date # forecast[k].date)
                          => forecast[k].count = 0

\* C24: for a non-empty collection in which every card has a
\* next_review_date, the forecast count of each day d in today .. today + N
\* is the number of cards whose next_review_date is d; overdue cards and
\* cards due after today + N are counted on no day.
C24_ForecastCountsPerDay ==
    (Called /\ coll # <<>> /\ AllDated) =>
        LET forecast == stats.due_counts_forecast
            OnDay(d) == Cardinality({ i \in DOMAIN coll : coll[i].next_review_date = d })
            Inside == { i \in DOMAIN coll : /\ coll[i].next_review_date >= at
                                            /\ coll[i].next_review_date <= at + forecast_days }
        IN  /\ \A d \in at..(at + forecast_days) :
                   /\ (d - at + 1) \in DOMAIN forecast
                   /\ forecast[d - at + 1].date = d
                   /\ forecast[d - at + 1].count = OnDay(d)
            /\ \A k \in DOMAIN forecast :
                   forecast[k].count =
                       Cardinality({ i \in Inside : coll[i].next_review_date = forecast[k].date })

\* a card due on the last day of the horizon and an overdue card
C24_Witness ==
    /\ Called /\ forecast_days = 2 /\ Len(coll) = 2
    /\ coll[1].next_review_date = at + 2
    /\ coll[2].next_review_date = at - 1
    /\ stats.due_counts_forecast =
           <<[date |-> at, count |-> 0], [date |-> at + 1, count |-> 0],
             [date |-> at + 2, count |-> 1]>>

\* C25: a card without next_review_date is due now for both functions,
\* whatever its review count: get_due_cards returns it, and due_today equals
\* the number of cards get_due_cards returns for the same collection and day.
C25_MissingDateDueForBoth ==
    Called =>
        /\ \A i \in DOMAIN coll :
               ~HasDate(coll[i]) => \E j \in DOMAIN selected : selected[j] = coll[i]
        /\ stats.due_today = Len(selected)

\* C26: due_today counts every card whose next_review_date <= today (the
\* overdue ones too) and no card dated later, due_tomorrow counts the cards
\* due exactly today + 1, due_next_7_days the cards with
\* today + 1 <= next_review_date <= today + 7.
C26_DueCounts ==
    Called =>
        LET UpToToday(c) == HasDate(c) /\ c.next_review_date <= at
            Undated(c) == ~HasDate(c)
            Tomorrow(c) == HasDate(c) /\ c.next_review_date = at + 1
            Next7(c) == HasDate(c) /\ at + 1 <= c.next_review_date /\ c.next_review_date <= at + 7
        IN  /\ stats.due_today >= CardsWhere(UpToToday)
            /\ stats.due_today <= CardsWhere(UpToToday) + CardsWhere(Undated)
            /\ stats.due_tomorrow = CardsWhere(Tomorrow)
            /\ stats.due_next_7_days = CardsWhere(Next7)

\* an overdue card and a card due on the last day of the 7-day window
C26_Witness ==
    /\ Called /\ Len(coll) = 2
    /\ coll[1].next_review_date = at - 1
    /\ coll[2].next_review_date = at + 7
    /\ stats.due_today = 1 /\ stats.due_tomorrow = 0 /\ stats.due_next_7_days = 1

\* C27: every card is in exactly one maturity bucket (new if reviews is 0;
\* otherwise learning below 21 days, young from 21 to below 90, mature from
\* 90), so the four bucket counts add up to total_cards.
C27_MaturityBuckets ==
    Called =>
        LET New(c) == c.reviews = 0
            Learning(c) == ~New(c) /\ c.interval_days < 21 * IntervalScale
            Young(c) == /\ ~New(c) /\ c.interval_days >= 21 * IntervalScale
                        /\ c.interval_days < 90 * IntervalScale
            Mature(c) == ~New(c) /\ c.interval_days >= 90 * IntervalScale
        IN  /\ stats.new_cards = CardsWhere(New)
            /\ stats.learning_cards = CardsWhere(Learning)
            /\ stats.young_cards = CardsWhere(Young)
            /\ stats.mature_cards = CardsWhere(Mature)
            /\ stats.total_cards = Len(coll)
            /\ stats.new_cards + stats.learning_cards + stats.young_cards
                   + stats.mature_cards = stats.total_cards

\* a never-reviewed card with a 25-day interval and a card at the 90-day limit
C27_Witness ==
    /\ Called /\ Len(coll) = 2
    /\ coll[1].reviews = 0 /\ coll[1].interval_days = 25 * IntervalScale
    /\ coll[2].reviews > 0 /\ coll[2].interval_days = 90 * IntervalScale
    /\ stats.new_cards = 1 /\ stats.mature_cards = 1
    /\ stats.learning_cards = 0 /\ stats.young_cards = 0

\* the bin the claim gives a card of interval x >= 0 (1 = the first bin)
ClaimedIntervalBin(x) ==
    IF x = 0 THEN 1
    ELSE IF x > 365 * IntervalScale THEN 11
    ELSE 1 + CHOOSE k \in 1..9 : interval_bins[k] < x /\ x <= interval_bins[k + 1]

\* C28: every card with interval_days >= 0 is counted in exactly one bin of
\* cards_by_interval_range (interval 0 in the first, above 365 in the last,
\* otherwise the bin (lo, hi] that holds it), so that the bin counts add up
\* to total_cards.
C28_IntervalHistogram ==
    (Called /\ \A i \in DOMAIN coll : coll[i].interval_days >= 0) =>
        /\ \A b \in 1..11 :
               CountAt(stats.cards_by_interval_range, interval_labels[b]) =
                   Cardinality({ i \in DOMAIN coll :
                                   ClaimedIntervalBin(coll[i].interval_days) = b })
        /\ DOMAIN stats.cards_by_interval_range \subseteq { interval_labels[b] : b \in 1..11 }
        /\ SumOfCounts(stats.cards_by_interval_range) = stats.total_cards

\* a card of exactly one day (upper end of its bin) and a card above a year
C28_Witness ==
    /\ Called /\ Len(coll) = 2
    /\ coll[1].interval_days = 1 * IntervalScale
    /\ coll[2].interval_days > 365 * IntervalScale
    /\ stats.cards_by_interval_range = [l \in {"<=1d", ">1y"} |-> 1]

\* the band the claim gives an ease factor e >= 0 (1 = the first band)
ClaimedEaseBand(e) ==
    IF e >= 3000 THEN 10
    ELSE CHOOSE k \in 1..9 : ease_bins[k] <= e /\ e < ease_bins[k + 1]

\* C29: the ease histogram covers the cards with reviews > 0 only: each of
\* them (with ease >= 0) is counted in exactly one band and a card with
\* reviews = 0 in none, so that the counts of ease_distribution add up to
\* total_cards - new_cards.
C29_EaseHistogram ==
    (Called /\ \A i \in DOMAIN coll : coll[i].ease_factor >= 0) =>
        /\ \A b \in 1..10 :
               CountAt(stats.ease_distribution, ease_labels[b]) =
                   Cardinality({ i \in DOMAIN coll :
                                   /\ coll[i].reviews > 0
                                   /\ ClaimedEaseBand(coll[i].ease_factor) = b })
        /\ DOMAIN stats.ease_distribution \subseteq { ease_labels[b] : b \in 1..10 }
        /\ SumOfCounts(stats.ease_distribution) = stats.total_cards - stats.new_cards

\* a never-reviewed card and a reviewed card at the lower end of a band
C29_Witness ==
    /\ Called /\ Len(coll) = 2
    /\ coll[1].reviews = 0
    /\ coll[2].reviews > 0 /\ coll[2].ease_factor = 1300
    /\ stats.ease_distribution = [l \in {"1.3-1.5"} |-> 1]
    /\ stats.new_cards = 1

\* C30: on an empty collection get_due_cards returns an empty list and
\* calculate_deck_statistics returns a snapshot whose counts and averages
\* are all zero.
C30_EmptyCollection ==
    (Called /\ coll = <<>>) =>
        /\ selected = <<>>
        /\ stats.total_cards = 0 /\ stats.new_cards = 0 /\ stats.learning_cards = 0
        /\ stats.young_cards = 0 /\ stats.mature_cards = 0
        /\ stats.due_today = 0 /\ stats.due_tomorrow = 0 /\ stats.due_next_7_days = 0
        /\ stats.total_reviews = 0 /\ stats.total_lapses = 0
        /\ stats.lapsed_card_count = 0
        /\ stats.average_interval_all = 0 /\ stats.average_interval_mature = 0
        /\ stats.average_ease = 0 /\ stats.longest_interval = 0
        /\ stats.average_reviews_per_card = 0 /\ stats.average_lapses_per_card = 0
        /\ \A k \in DOMAIN stats.due_counts_forecast : stats.due_counts_forecast[k].count = 0
        /\ SumOfCounts(stats.cards_by_interval_range) = 0
        /\ SumOfCounts(stats.ease_distribution) = 0

\* both functions were called on the empty collection with a horizon of 2 days
C30_Witness ==
    /\ Called /\ coll = <<>> /\ forecast_days = 2
    /\ selected = <<>> /\ stats.total_cards = 0

-----------------------------------------------------------------------------
(* Frame properties of the application.  C31 is checked under WindowSpec:  *)
(* only open_stats_window changes `calls` there, so a step that changes it *)
(* is one call of calculate_deck_statistics on deck_data.                  *)

\* C31: calculate_deck_statistics has no side effects: a call at any point,
\* also in the middle of a review session, leaves the fields of every
\* card, deck_data, due_cards, current_card_index, showing_answer and
\* _is_review_active as they were.
C31_StatisticsNoSideEffects ==
    [][calls' # calls =>
          /\ stats' = calculate_deck_statistics(DeckCards(cards, deck_data),
                                                STATS_FORECAST_DAYS, today)
          /\ UNCHANGED <<cards, deck_data, due_cards, current_card_index,
                         showing_answer, _is_review_active>>]_vars

\* the statistics window was opened in the middle of a session, after a
\* card was rated and with further cards waiting
C31_Witness ==
    /\ calls = 1
    /\ at = today
    /\ coll = DeckCards(cards, deck_data)
    /\ stats.total_cards = Len(deck_data)
    /\ _is_review_active
    /\ current_card_index > 0
    /\ \E id \in DOMAIN session_rating : session_rating[id] \in 2..4

-----------------------------------------------------------------------------
(* Which steps of a session write to a card, checked under Spec.           *)

\* the cards of the heap after a step that are new or differ from before
Touched ==
    { id \in DOMAIN cards' : id \notin DOMAIN cards \/ cards'[id] # cards[id] }

\* the queued ids, as a set
Queued(queue) == { queue[k] : k \in DOMAIN queue }

\* a step that writes to exactly the card under review what one call of
\* update_card_schedule returns, and moves the queue as rate_card does
RatingWrite ==
    /\ _is_review_active /\ showing_answer
    /\ ValidIndex(current_card_index, due_cards)
    /\ deck_data' = deck_data
    /\ Touched = {due_cards[current_card_index + 1]}
    /\ \E q \in 1..4 :
           /\ cards' = [cards EXCEPT ![due_cards[current_card_index + 1]] =
                           update_card_schedule(@, q, today)]
           /\ IF q = 1
              THEN /\ current_card_index' = current_card_index
                   /\ due_cards' = SubSeq(due_cards, 1, current_card_index)
                                   \o SubSeq(due_cards, current_card_index + 2,
                                             Len(due_cards))
                                   \o <<due_cards[current_card_index + 1]>>
              ELSE /\ current_card_index' = current_card_index + 1
                   /\ due_cards' = due_cards

\* a step after which memory holds the cards exactly as load_deck built
\* them from the file, the queue being the due ones among them in some order
LoadWrite ==
    LET loaded == load_deck(disk', today)
        due == get_due_cards(loaded, today)
    IN  /\ deck_data' = [j \in DOMAIN loaded |-> loaded[j].id]
        /\ DOMAIN cards' = Queued(deck_data')
        /\ \A j \in DOMAIN loaded : cards'[loaded[j].id] = loaded[j]
        /\ Len(due_cards') = Len(due)
        /\ Queued(due_cards') = { due[j].id : j \in DOMAIN due }

\* C32: selecting the due cards and requeueing do not write to cards.
\* After a load the cards are as load_deck built them (get_due_cards
\* changed no field), and any other step that changes a card is a rating
\* that changes the card under review, by one update_card_schedule call,
\* while the queue is only reordered (Again) or the index moved on.
C32_SelectionAndRequeueWriteNoCard ==
    [][Touched = {} \/ RatingWrite \/ LoadWrite]_vars

\* a card was just rated Again and went to the end of the queue behind
\* another one: it has one more lapse than when loaded, the cards still
\* waiting hold what was loaded
C32_Witness ==
    /\ _is_review_active
    /\ \E id \in last_again :
           /\ due_cards[Len(due_cards)] = id
           /\ current_card_index + 1 < Len(due_cards)
           /\ cards[id].lapses = synced[id].lapses + 1
           /\ \A other \in Queued(due_cards) \ {id} :
                  session_rating[other] = 0 => Written(cards[other]) = synced[other]
    /\ \E other \in Queued(due_cards) : session_rating[other] = 0

-----------------------------------------------------------------------------
(* Who writes the scheduling fields, checked under AppSpec.                *)

\* the step is a rating of card id: it is under review with its answer
\* shown and receives what update_card_schedule returns
RatingOf(id) ==
    /\ _is_review_active /\ showing_answer
    /\ ValidIndex(current_card_index, due_cards)
    /\ id = due_cards[current_card_index + 1]
    /\ \E q \in 1..4 : cards'[id] = update_card_schedule(cards[id], q, today)

\* the step built card id anew from its row of the file, as a load does:
\* the dict is what load_deck makes of the line with that number
BuiltFromFile(id) ==
    /\ id - 1 \in DOMAIN disk'
    /\ StrippedColumns \subseteq DOMAIN disk'[id - 1]
    /\ cards'[id] = ParseRow(disk'[id - 1], id, today)

\* C33: once a card is in memory its interval_days, ease_factor, lapses,
\* reviews and next_review_date change only when it is rated.  A step
\* that edits, adds, deletes or saves cards leaves these fields and the id
\* of every card that stays in memory as they were unless it is a rating
\* of that card; the one other way a dict gets different values is a load,
\* which builds the collection anew from the file.
C33_ScheduleChangedOnlyByRating ==
    [][\A id \in DOMAIN cards \cap DOMAIN cards' :
           \/ /\ WrittenFields(cards'[id]) = WrittenFields(cards[id])
              /\ cards'[id].id = cards[id].id
           \/ RatingOf(id)
           \/ BuiltFromFile(id)]_vars

\* a card of the file was rated and then edited: it carries the new text,
\* was saved, and still has the schedule the rating gave it
C33_Witness ==
    \E id \in Queued(deck_data) \cap DOMAIN session_rating :
        /\ id > 0
        /\ session_rating[id] \in 1..4
        /\ cards[id].front = HtmlEscape("<g>")
        /\ ~cards[id]._dirty
        /\ cards[id].reviews > 0
        /\ synced[id] = Written(cards[id])

-----------------------------------------------------------------------------
(* The end of a session, checked under Spec.  The date only moves forward  *)
(* from Day0, so a state with today = Day0 is one in which the day has not *)
(* changed since the deck was loaded.                                      *)

\* the session ran through its queue: the index stands behind the last card
QueueExhausted == due_cards # <<>> /\ current_card_index = Len(due_cards)

\* the ids get_due_cards returns for the collection in memory
DueNow ==
    LET due == get_due_cards(DeckCards(cards, deck_data), today)
    IN  { due[j].id : j \in DOMAIN due }

\* C34: when a session has ended by exhausting the queue on the day it
\* started, every card of the queue was last rated Hard, Good or Easy, has
\* a next_review_date after today, and is not returned by get_due_cards.
C34_ExhaustedQueueLeavesNothingDue ==
    (today = Day0 /\ QueueExhausted) =>
        \A id \in Queued(due_cards) :
            /\ session_rating[id] \in 2..4
            /\ cards[id].next_review_date > today
            /\ id \notin DueNow

\* a session of two or more cards ended on its day, one of its cards
\* having been rated Again on the way
C34_Witness ==
    /\ today = Day0
    /\ QueueExhausted
    /\ ~_is_review_active
    /\ Len(due_cards) >= 2
    /\ \E id \in Queued(due_cards) : cards[id].lapses > synced[id].lapses

-----------------------------------------------------------------------------
(* The queue and the index across ratings, checked under Spec.             *)

\* how often a card is in a queue
Occurrences(queue, id) == Cardinality({ k \in DOMAIN queue : queue[k] = id })

\* the two queues hold the same cards the same number of times
SameMultiset(old, new) ==
    /\ Len(new) = Len(old)
    /\ \A id \in Queued(old) \cup Queued(new) :
           Occurrences(new, id) = Occurrences(old, id)

\* C35: every rate_card event keeps the queue as a multiset (nothing
\* dropped or duplicated, same length), keeps the index between 0 and
\* len(due_cards), and leaves the index as it is on Again and adds exactly
\* 1 to it on Hard, Good and Easy, so that it never decreases.
C35_RatingKeepsQueueAndIndex ==
    [][\A q \in 1..4 :
           rate_card(q) =>
               /\ SameMultiset(due_cards, due_cards')
               /\ 0 <= current_card_index'
               /\ current_card_index' <= Len(due_cards')
               /\ current_card_index' = current_card_index + (IF q = 1 THEN 0 ELSE 1)]_vars

\* a card was just rated Again, after an earlier card had been rated
\* otherwise: the index is past the first card and the failed card waits
\* at the end of a queue of three
C35_Witness ==
    /\ _is_review_active
    /\ Len(due_cards) = 3
    /\ current_card_index = 1
    /\ \E id \in last_again : due_cards[3] = id /\ session_rating[id] = 1
    /\ session_rating[due_cards[1]] \in 2..4

-----------------------------------------------------------------------------
(* The queue and the collection, checked under AppSpec.                    *)

\* C36: in every reachable state every card of the review queue due_cards
\* is a card of the collection deck_data, also after cards were deleted in
\* the Manage Cards window during a session.
C36_QueueWithinCollection == Queued(due_cards) \subseteq Queued(deck_data)

-----------------------------------------------------------------------------
(* When a rating can be applied, checked under Spec.  Under Spec the       *)
(* review count of a card in memory changes only when it is rated.         *)

\* the step applies a rating to a card
RatingApplied ==
    \E id \in DOMAIN cards \cap DOMAIN cards' : cards'[id].reviews # cards[id].reviews

\* a card is on screen with its answer shown: rate_card passes line 906
Rateable(active, showing) == active /\ showing

\* C37: a rating is applied only when _is_review_active and showing_answer
\* are both true, and after it they are not both true, so that no second
\* rating can follow at once; they become both true only by a step that
\* turns showing_answer on in an active session and touches neither a
\* card nor the queue nor the index (show_answer).  Hence a show_answer
\* lies between any two ratings and a displayed card is rated at most once.
C37_RatingNeedsShownAnswer ==
    [][/\ RatingApplied =>
              /\ Rateable(_is_review_active, showing_answer)
              /\ ~Rateable(_is_review_active', showing_answer')
       /\ (~Rateable(_is_review_active, showing_answer)
             /\ Rateable(_is_review_active', showing_answer')) =>
              /\ _is_review_active /\ ~showing_answer
              /\ UNCHANGED <<cards, deck_data, due_cards, current_card_index>>]_vars

\* two ratings were applied in one session, and the third card is on
\* screen with its answer hidden
C37_Witness ==
    /\ _is_review_active /\ ~showing_answer
    /\ Len(due_cards) = 3
    /\ current_card_index = 2
    /\ session_rating[due_cards[1]] \in 2..4
    /\ session_rating[due_cards[2]] \in 2..4
    /\ session_rating[due_cards[3]] = 0

-----------------------------------------------------------------------------
(* Saving before the collection is given up, checked under FolderSpec.     *)

\* a step that starts a handler which gives up the collection in memory:
\* a load, the closing of the window, or a Reload List that resets the
\* session (the folder has no deck, or no deck is loaded)
Discarding ==
    \/ on_close
    \/ load_selected_decks
    \/ populate_deck_listbox /\ (~file_exists \/ current_deck_paths = <<>>)

\* the file holds the row of the card at position i of deck_data
RowWritten(i) ==
    /\ file_exists'
    /\ Len(disk') = Len(deck_data)
    /\ disk'[i] = FormatRow(cards[deck_data[i]])

\* the save was attempted and failed: the handler waits in the box Save
\* Error with the collection still in memory
SaveAttempted ==
    /\ dialog'.box = "Save Error"
    /\ deck_data' = deck_data
    /\ ~closed'

\* C38: no event gives up the collection in memory with unsaved changes
\* in it without first attempting to save.  When load_selected_decks,
\* on_close or the reset_session_state of Reload List starts with a dirty
\* card in deck_data, the step writes the file with the current fields of
\* that card before deck_data is replaced or cleared or the window is
\* destroyed; when the file system refuses the write, the step ends in the
\* box Save Error with the collection still in place.  And a collection
\* with a dirty card is given up by such a step or after that box only.
C38_SaveBeforeDiscard ==
    [][/\ (\A i \in DOMAIN deck_data :
               cards[deck_data[i]]._dirty =>
                   \/ RowWritten(i)
                   \/ write_fault # NoFault /\ SaveAttempted)
          \/ ~Discarding
       /\ ((\E i \in DOMAIN deck_data : cards[deck_data[i]]._dirty)
              /\ (deck_data' # deck_data \/ closed'))
              => (dialog.box = "Save Error" \/ Discarding)]_vars

\* Reload List found the folder without the deck file while a rated card
\* was in memory: the session is cleared and the file is back, holding the
\* card as the rating left it
C38_Witness ==
    /\ deck_data = <<>> /\ current_deck_paths = <<>>
    /\ available_decks = <<>>
    /\ dialog = NoDialog
    /\ file_exists
    /\ \E i \in DOMAIN disk :
           /\ disk[i].reviews # InputRow(i).reviews
           /\ disk[i].next_review_date > today

-----------------------------------------------------------------------------
(* The shape of the cards in memory, checked under LoadSpec.               *)

\* C39: in every reachable state (after load_deck, add-card and any
\* ratings) every card of deck_data has ease_factor >= 1.3, a
\* next_review_date, and interval_days either exactly 0 or >= 1.0; an
\* interval of 0 is that of a card not rated since it was loaded or made.
C39_CardsWellFormed ==
    \A i \in DOMAIN deck_data :
        LET c == cards[deck_data[i]]
        IN  /\ c.ease_factor >= MINIMUM_EASE_FACTOR
            /\ c.next_review_date # NoDate
            /\ c.interval_days = 0 \/ c.interval_days >= MINIMUM_INTERVAL_DAYS
            /\ (c.interval_days = 0 /\ deck_data[i] \in DOMAIN session_rating) =>
                   session_rating[deck_data[i]] = 0

\* a row with a date, an interval below 1.0 and an ease below 1.3 was
\* loaded, and its card was rated: the file still holds the row as written
C39_Witness ==
    /\ Len(deck_data) = 1 /\ Len(disk) = 1
    /\ DOMAIN disk[1] = DOMAIN RowOverdue
    /\ disk[1].next_review_date # NoDate
    /\ disk[1].interval_days \in {{-100}, {40}}
    /\ disk[1].ease_factor = {1000}
    /\ deck_data[1] \in DOMAIN session_rating
    /\ session_rating[deck_data[1]] \in 1..4
    /\ cards[deck_data[1]]._dirty

-----------------------------------------------------------------------------
(* The order of the ratings, checked under SchedSpec for every card a      *)
(* behaviour holds, be it an input or the result of a call.                *)

\* the card is one that update_card_schedule treats as graduated
Graduated(c) ==
    /\ c.interval_days >= MINIMUM_INTERVAL_DAYS
    /\ c.reviews >= 1
    /\ c.ease_factor >= MINIMUM_EASE_FACTOR

\* interval_days of the card after a call with quality q
IntervalAfter(c, q) == update_card_schedule(c, q, today).interval_days

\* C40: for one and the same graduated card the resulting intervals are
\* ordered by the rating: after Easy >= after Good >= after Hard >= 1.0.
C40_IntervalsOrderedByRating ==
    Graduated(card) =>
        /\ IntervalAfter(card, 4) >= IntervalAfter(card, 3)
        /\ IntervalAfter(card, 3) >= IntervalAfter(card, 2)
        /\ IntervalAfter(card, 2) >= MINIMUM_INTERVAL_DAYS

\* a card that a call graduated, for which the three intervals differ
C40_Witness ==
    /\ Called
    /\ IsLearning(before.interval_days, before.reviews)
    /\ Graduated(card)
    /\ IntervalAfter(card, 4) > IntervalAfter(card, 3)
    /\ IntervalAfter(card, 3) > IntervalAfter(card, 2)

====
